---- MODULE Spec2Model ----
(***************************************************************************)
(* Verification model of chizuts: the graph builder (buildGraph) and the   *)
(* TypeScript parser adapter's resolution passes (re-export collection and *)
(* chain collapsing, import maps, import edges, heritage clauses, class    *)
(* members).                                                               *)
(*                                                                         *)
(* Ids are strings and are built with \o exactly where the source builds   *)
(* them with template literals, so that two different inputs that produce  *)
(* the same text are the same id in the model too.                         *)
(***************************************************************************)
EXTENDS Integers, Sequences, FiniteSets, TLC

VARIABLES
  \* ---- domain/services/graph-builder.ts ----
  parsedFiles,   \* the argument of buildGraph: a sequence of ParsedFile
  graph,         \* the DependencyGraph buildGraph returned (NoGraph before)
  buildPc,       \* "input" while the caller assembles parsedFiles, then "built"
  \* ---- typescript-parser.adapter.ts: parse(), first pass ----
  reexportMap,   \* Map<string,string> in insertion order: Seq of [key, value]
  fileIdx,       \* index (1-based) of the next file of the first pass
  parsePc,       \* position inside parse()
  resolved,      \* the Map resolveReexportChains is filling (same shape)
  entryIdx,      \* index of the entry of reexportMap the for-of loop is at
  current,       \* resolveReexportChains: let current
  visited,       \* resolveReexportChains: const visited
  walkSteps,     \* iterations of the while loop done for the current entry
  importDecl,    \* the import declarations handed to processImport so far
  importEdges,   \* the edges processImport pushed for importDecl
  \* ---- typescript-parser.adapter.ts: parseSourceFile on one file ----
  sourceFile,    \* <<the source file>> (its imports and its class), <<>> before
  extractMap,    \* the collapsed re-export table parseSourceFile is given
  parsed,        \* <<the ParsedFile parseSourceFile returned>>, <<>> before
  extractPc,     \* "ready" before parseSourceFile ran, then "parsed"
  \* ---- typescript-parser.adapter.ts: collectCallEdges on one file ----
  callModule,    \* currentModuleId
  callNodes,     \* the syntax nodes visit() has been applied to, in order
  callEdges,     \* const edges
  addedEdges,    \* const addedEdges
  callPc,        \* "visiting" while visit() walks the file, then "returned"
  \* ---- typescript-parser.adapter.ts: parse(), the three passes ----
  program,       \* the files given to parse(), in order
  passPc,        \* the loop (or call) of parse() that runs next
  passIdx,       \* files each of the three loops has handled
  passMap,       \* const reexportMap
  passResolved,  \* <<resolvedReexportMap>>, <<>> before it is assigned
  results,       \* const results
  symbolToNodeId,        \* Map<ts.Symbol, string>
  declarationToNodeId,   \* Map<ts.Node, string>
  resultsWithCallEdges,  \* const resultsWithCallEdges
  \* ---- cli/index.ts main() in watch mode, and web/server startServer ----
  process,       \* "running", or "exited" after an uncaught exception
  targetPath,    \* options.targetPath of startServer (None when not given)
  disk,          \* the project on disk: the number of source changes so far
  mainGraph,     \* main: let graph
  currentGraph,  \* startServer: let currentGraph
  sseClients,    \* startServer: const sseClients, in insertion order
  link,          \* per connection: "none" (not yet made), "open", "closed"
  written,       \* per connection: what was passed to res.write, in order
  debounceTimer, \* main: let debounceTimer (0 is null, else the timer's id)
  timers,        \* the timers set and not yet fired or cleared
  changes,       \* watcher events delivered so far
  reanalyzePc,   \* "idle", or where the running reanalyze() call stands
  notifyIdx,     \* updateGraph: position of the for-of loop over sseClients
  layout,        \* content of .chizuts/layout.json (None when there is none)
  fetched,       \* <<body of the last /api/graph response>>, <<>> before
  \* ---- history kept for the statements about the watch mode ----
  elapsed,       \* ms since the last source-file event (capped at DebounceMs)
  bursts,        \* source-file events that found no timer pending
  outcomes,      \* "ok" / "failed" of the reanalyze() calls that ended
  inProgress,    \* reanalyze() calls begun and not ended
  writeFailed,   \* the connections a write of the current or last updateGraph
                 \* call stalled or failed for
  analyses,      \* the graphs analyzeProject.execute has returned
  joinedAt,      \* per connection: updateGraph calls completed when it subscribed
  leftAt,        \* per connection: the same when it closed
  \* ---- web/server startServer: the /api/layout requests ----
  caller,        \* who called startServer: "main" (cli/index.ts) or "library"
  request,       \* <<the last request handled>>, <<>> before
  response,      \* <<the response to it>>
  requests,      \* requests handled so far
  persisted,     \* <<the value of the last save answered 200>>, <<>> before
  \* ---- cli/index.ts: parseArgs and applyEnvOverrides ----
  argv,          \* process.argv.slice(2): a sequence of words
  envPort,       \* <<process.env['PORT']>>, <<>> when it is not set
  parsedOptions, \* <<what parseArgs returned>>, <<>> before and when it threw
  cliOptions,    \* <<what applyEnvOverrides returned>>, <<>> before
  envPc,         \* "args", "env", "done", or "CliError"
  \* ---- infrastructure/file-system/file-reader.adapter.ts ----
  tree,          \* the files under rootDir: paths relative to it
  findOptions,   \* the FileReaderOptions given to findFiles
  foundFiles,    \* the paths findFiles returned
  findPc,        \* "call" before findFiles ran, then "returned"
  \* ---- typescript-parser.adapter.ts: createModuleId, resolveImportPath ----
  idFile,        \* a source file under rootDir (path relative to rootDir)
  idFrom,        \* the file that holds an import declaration
  idSpecifier,   \* the module specifier of that declaration
  moduleNodeId,  \* <<the id of idFile's module node>>, <<>> before
  specifierModuleId \* <<the targetModuleId computed for the specifier>>

buildVars   == <<parsedFiles, graph, buildPc>>
reexpVars   == <<reexportMap, fileIdx, parsePc, resolved, entryIdx, current,
                 visited, walkSteps, importDecl, importEdges>>
extractVars == <<sourceFile, extractMap, parsed, extractPc>>
callVars    == <<callModule, callNodes, callEdges, addedEdges, callPc>>
passVars    == <<program, passPc, passIdx, passMap, passResolved, results,
                 symbolToNodeId, declarationToNodeId, resultsWithCallEdges>>
earlierVars == <<buildVars, reexpVars, extractVars>>
watchVars   == <<process, targetPath, disk, mainGraph, currentGraph, sseClients,
                 link, written, debounceTimer, timers, changes, reanalyzePc,
                 notifyIdx, layout, fetched, elapsed, bursts, outcomes,
                 inProgress, writeFailed, analyses, joinedAt, leftAt>>
layoutVars  == <<caller, request, response, requests, persisted>>
envVars     == <<argv, envPort, parsedOptions, cliOptions, envPc>>
findVars    == <<tree, findOptions, foundFiles, findPc>>
idVars      == <<idFile, idFrom, idSpecifier, moduleNodeId, specifierModuleId>>
restVars    == <<layoutVars, envVars, findVars, idVars>>
laterVars   == <<callVars, passVars, watchVars, restVars>>
vars        == <<earlierVars, laterVars>>

None == "undefined"

\* placeholders of the right shape for what has not been computed yet (the pc
\* variables say when a value is meaningful)
NoGraph  == [nodes |-> <<>>, edges |-> <<>>,
             metadata |-> [rootDir |-> None, fileCount |-> 0, version |-> None]]

(***************************************************************************)
(* Generic helpers                                                         *)
(***************************************************************************)
Range(s) == {s[i] : i \in 1..Len(s)}

RECURSIVE SeqsUpTo(_, _)
SeqsUpTo(S, n) ==
  IF n = 0 THEN {<<>>}
  ELSE LET shorter == SeqsUpTo(S, n - 1)
       IN  shorter \cup {Append(s, x) : s \in {t \in shorter : Len(t) = n - 1}, x \in S}

(***************************************************************************)
(* The parts of the model that are idle in a given specification.          *)
(***************************************************************************)
IdleReexport ==
  /\ reexportMap = <<>>
  /\ fileIdx = 0
  /\ parsePc = "idle"
  /\ resolved = <<>>
  /\ entryIdx = 0
  /\ current = None
  /\ visited = {}
  /\ walkSteps = 0
  /\ importDecl = <<>>
  /\ importEdges = <<>>

IdleExtract ==
  /\ sourceFile = <<>>
  /\ extractMap = <<>>
  /\ parsed = <<>>
  /\ extractPc = "idle"

IdleCalls ==
  /\ callModule = None
  /\ callNodes = <<>>
  /\ callEdges = <<>>
  /\ addedEdges = {}
  /\ callPc = "idle"

IdlePasses ==
  /\ program = <<>>
  /\ passPc = "idle"
  /\ passIdx = [collect |-> 0, extract |-> 0, calls |-> 0]
  /\ passMap = <<>>
  /\ passResolved = <<>>
  /\ results = <<>>
  /\ symbolToNodeId = <<>>
  /\ declarationToNodeId = <<>>
  /\ resultsWithCallEdges = <<>>

IdleWatch ==
  /\ process = "idle"
  /\ targetPath = None
  /\ disk = 0
  /\ mainGraph = 0
  /\ currentGraph = 0
  /\ sseClients = <<>>
  /\ link = <<>>
  /\ written = <<>>
  /\ debounceTimer = 0
  /\ timers = {}
  /\ changes = 0
  /\ reanalyzePc = "idle"
  /\ notifyIdx = 0
  /\ layout = None
  /\ fetched = <<>>
  /\ elapsed = 0
  /\ bursts = 0
  /\ outcomes = <<>>
  /\ inProgress = 0
  /\ writeFailed = {}
  /\ analyses = {}
  /\ joinedAt = <<>>
  /\ leftAt = <<>>

IdleLayout ==
  /\ caller = None
  /\ request = <<>>
  /\ response = <<>>
  /\ requests = 0
  /\ persisted = <<>>

IdleEnv ==
  /\ argv = <<>>
  /\ envPort = <<>>
  /\ parsedOptions = <<>>
  /\ cliOptions = <<>>
  /\ envPc = "idle"

IdleFind ==
  /\ tree = {}
  /\ findOptions = <<>>
  /\ foundFiles = {}
  /\ findPc = "idle"

IdleIds ==
  /\ idFile = <<>>
  /\ idFrom = <<>>
  /\ idSpecifier = <<>>
  /\ moduleNodeId = <<>>
  /\ specifierModuleId = <<>>

IdleRest == IdleLayout /\ IdleEnv /\ IdleFind /\ IdleIds

IdleLater == IdleCalls /\ IdlePasses /\ IdleWatch /\ IdleRest

(***************************************************************************)
(* domain/services/graph-builder.ts                                        *)
(***************************************************************************)
MaxFiles == 2   \* files in the list given to buildGraph
MaxItems == 3   \* nodes plus edges over all files of the list

NodeIds     == {"a", "a#f"}
EdgeSources == {"a", "a->b"}
EdgeTargets == {"c", "b->c"}
EdgeTypes   == {"import", "call"}
RootDirs    == {"/project"}

\* A node or an edge carries, as its metadata, the place of the input it was
\* written at (file index, "n" or "e", index in the file): every occurrence is
\* a different object, as in the caller.
NodeAt(id, f, i) == [id |-> id, metadata |-> <<f, "n", i>>]
EdgeAt(s, t, k, f, i) ==
  [source |-> s, target |-> t, type |-> k, metadata |-> <<f, "e", i>>]

EmptyAcc == [nodes |-> <<>>, edges |-> <<>>, seenNodeIds |-> {}, seenEdgeKeys |-> {}]

\* for (const node of file.nodes) { if (!seenNodeIds.has(node.id)) {...} }
AddNodeNoDedup(acc, node) ==
  [acc EXCEPT !.seenNodeIds = @ \cup {node.id}, !.nodes = Append(@, node)]

AddNode(acc, node) ==
  IF node.id \notin acc.seenNodeIds
  THEN [acc EXCEPT !.seenNodeIds = @ \cup {node.id}, !.nodes = Append(@, node)]
  ELSE acc

\* const edgeKey = `${edge.source}->${edge.target}:${edge.type}`
EdgeKey(edge) == edge.source \o "->" \o edge.target \o ":" \o edge.type

AddEdgeNoDedup(acc, edge) ==
  [acc EXCEPT !.seenEdgeKeys = @ \cup {EdgeKey(edge)}, !.edges = Append(@, edge)]

AddEdge(acc, edge) ==
  IF EdgeKey(edge) \notin acc.seenEdgeKeys
  THEN [acc EXCEPT !.seenEdgeKeys = @ \cup {EdgeKey(edge)}, !.edges = Append(@, edge)]
  ELSE acc

RECURSIVE AddNodes(_, _)
AddNodes(acc, ns) ==
  IF ns = <<>> THEN acc ELSE AddNodes(AddNode(acc, Head(ns)), Tail(ns))

RECURSIVE AddEdges(_, _)
AddEdges(acc, es) ==
  IF es = <<>> THEN acc ELSE AddEdges(AddEdge(acc, Head(es)), Tail(es))

\* for (const file of parsedFiles) { nodes...; edges... }
RECURSIVE MergeFiles(_, _)
MergeFiles(acc, files) ==
  IF files = <<>> THEN acc
  ELSE MergeFiles(AddEdges(AddNodes(acc, Head(files).nodes), Head(files).edges),
                  Tail(files))

\* createGraphMetadata: fileCount ?? 0, version ?? '0.1.0' (analyzedAt, the
\* wall clock, is left out: nothing reads it)
CreateGraphMetadataNoCount(params) ==
  [rootDir   |-> params.rootDir,
   fileCount |-> 0,
   version   |-> IF params.version = None THEN "0.1.0" ELSE params.version]

CreateGraphMetadata(params) ==
  [rootDir   |-> params.rootDir,
   fileCount |-> IF "fileCount" \in DOMAIN params THEN params.fileCount ELSE 0,
   version   |-> IF params.version = None THEN "0.1.0" ELSE params.version]

CreateDependencyGraph(params) ==
  [nodes |-> params.nodes, edges |-> params.edges, metadata |-> params.metadata]

BuildGraph(files, options) ==
  LET acc == MergeFiles(EmptyAcc, files)
      metadata == CreateGraphMetadata([rootDir   |-> options.rootDir,
                                       fileCount |-> Len(files),
                                       version   |-> options.version])
  IN  CreateDependencyGraph([nodes |-> acc.nodes, edges |-> acc.edges,
                             metadata |-> metadata])

\* ---- the caller assembling the list, then calling buildGraph ----
RECURSIVE CountItems(_)
CountItems(files) ==
  IF files = <<>> THEN 0
  ELSE Len(Head(files).nodes) + Len(Head(files).edges) + CountItems(Tail(files))

NewParsedFile ==
  /\ buildPc = "input"
  /\ Len(parsedFiles) < MaxFiles
  /\ parsedFiles' = Append(parsedFiles, [nodes |-> <<>>, edges |-> <<>>])
  /\ UNCHANGED <<graph, buildPc, reexpVars, extractVars, laterVars>>

PushNode ==
  /\ buildPc = "input"
  /\ parsedFiles # <<>>
  /\ CountItems(parsedFiles) < MaxItems
  /\ \E id \in NodeIds :
       LET f == Len(parsedFiles)
           n == NodeAt(id, f, Len(parsedFiles[f].nodes) + 1)
       IN  parsedFiles' = [parsedFiles EXCEPT ![f].nodes = Append(@, n)]
  /\ UNCHANGED <<graph, buildPc, reexpVars, extractVars, laterVars>>

PushEdge ==
  /\ buildPc = "input"
  /\ parsedFiles # <<>>
  /\ CountItems(parsedFiles) < MaxItems
  /\ \E s \in EdgeSources, t \in EdgeTargets, k \in EdgeTypes :
       LET f == Len(parsedFiles)
           e == EdgeAt(s, t, k, f, Len(parsedFiles[f].edges) + 1)
       IN  parsedFiles' = [parsedFiles EXCEPT ![f].edges = Append(@, e)]
  /\ UNCHANGED <<graph, buildPc, reexpVars, extractVars, laterVars>>

CallBuildGraph ==
  /\ buildPc = "input"
  /\ \E root \in RootDirs, version \in {None, "9.9.9"} :
       graph' = BuildGraph(parsedFiles, [rootDir |-> root, version |-> version])
  /\ buildPc' = "built"
  /\ UNCHANGED <<parsedFiles, reexpVars, extractVars, laterVars>>

InitBuildGraph ==
  /\ parsedFiles = <<>>
  /\ graph = NoGraph
  /\ buildPc = "input"
  /\ IdleReexport
  /\ IdleExtract
  /\ IdleLater

NextBuildGraph ==
  \/ NewParsedFile
  \/ PushNode
  \/ PushEdge
  \/ CallBuildGraph

SpecBuildGraph == InitBuildGraph /\ [][NextBuildGraph]_vars

\* ---- the input, flattened in input order (files in list order, then the
\* ---- items of a file in file order) ----
RECURSIVE AllNodes(_)
AllNodes(files) ==
  IF files = <<>> THEN <<>> ELSE Head(files).nodes \o AllNodes(Tail(files))

RECURSIVE AllEdges(_)
AllEdges(files) ==
  IF files = <<>> THEN <<>> ELSE Head(files).edges \o AllEdges(Tail(files))

Triple(e) == <<e.source, e.target, e.type>>

Built == buildPc = "built"

\* i is the first place of s whose item has the key of s[i]
IsFirstNode(s, i) == \A j \in 1..(i - 1) : s[j].id # s[i].id
IsFirstEdge(s, i) == \A j \in 1..(i - 1) : Triple(s[j]) # Triple(s[i])
SharedNode(s, i)  == \E j \in 1..Len(s) : j # i /\ s[j].id = s[i].id
SharedEdge(s, i)  == \E j \in 1..Len(s) : j # i /\ Triple(s[j]) = Triple(s[i])

\* the place of item x in s (every input item is a different object)
PlaceIn(s, x) == CHOOSE i \in 1..Len(s) : s[i] = x

\* out holds items of s only, in the order of s
KeepsOrder(s, out) ==
  /\ \A p \in 1..Len(out) : out[p] \in Range(s)
  /\ \A p, q \in 1..Len(out) : p < q => PlaceIn(s, out[p]) < PlaceIn(s, out[q])

\* C1: no two nodes of the graph buildGraph returns share an id, whatever
\* nodes are repeated within or across the files of its input.
C1_UniqueNodeIds ==
  Built => \A i, j \in 1..Len(graph.nodes) :
             i # j => graph.nodes[i].id # graph.nodes[j].id

C1_Witness ==
  /\ Built
  /\ Len(parsedFiles) = 2
  /\ \E n \in Range(parsedFiles[1].nodes), m \in Range(parsedFiles[2].nodes) :
       n.id = m.id
  /\ Len(graph.nodes) < Len(AllNodes(parsedFiles))

\* C2: no two edges of the graph buildGraph returns share the same
\* (source, target, kind) triple.
C2_UniqueEdgeTriples ==
  Built => \A i, j \in 1..Len(graph.edges) :
             i # j => Triple(graph.edges[i]) # Triple(graph.edges[j])

C2_Witness ==
  /\ Built
  /\ \E i, j \in 1..Len(AllEdges(parsedFiles)) :
       i # j /\ Triple(AllEdges(parsedFiles)[i]) = Triple(AllEdges(parsedFiles)[j])
  /\ Len(graph.edges) < Len(AllEdges(parsedFiles))

\* C3: buildGraph retains one edge for every distinct (source, target, kind)
\* triple of its input: edges that differ in source, target or kind are never
\* merged, whatever characters the ids contain.
C3_EveryTripleRetained ==
  Built => \A e \in Range(AllEdges(parsedFiles)) :
             \E g \in Range(graph.edges) : Triple(g) = Triple(e)

\* C4: of the input nodes that share an id, and of the input edges that share
\* a triple, buildGraph keeps exactly the first in input order, as it was
\* written (its own metadata), and the output keeps the input order.
C4_FirstOccurrenceWins ==
  Built =>
    LET ns == AllNodes(parsedFiles)
        es == AllEdges(parsedFiles)
    IN  /\ \A i \in 1..Len(ns) :
             SharedNode(ns, i) => (ns[i] \in Range(graph.nodes) <=> IsFirstNode(ns, i))
        /\ \A i \in 1..Len(es) :
             SharedEdge(es, i) => (es[i] \in Range(graph.edges) <=> IsFirstEdge(es, i))
        /\ KeepsOrder(ns, graph.nodes)
        /\ KeepsOrder(es, graph.edges)

\* C5: metadata.fileCount is the number of per-file results merged, whatever
\* was deduplicated; an empty list gives no node, no edge and fileCount 0.
C5_FileCount ==
  Built =>
    /\ graph.metadata.fileCount = Len(parsedFiles)
    /\ parsedFiles = <<>> =>
         /\ graph.nodes = <<>>
         /\ graph.edges = <<>>
         /\ graph.metadata.fileCount = 0

C5_Witness ==
  /\ Built
  /\ Len(parsedFiles) = 2
  /\ Len(graph.nodes) < Len(AllNodes(parsedFiles))
  /\ graph.metadata.fileCount = 2

IdleBuild ==
  /\ parsedFiles = <<>>
  /\ graph = NoGraph
  /\ buildPc = "idle"

(***************************************************************************)
(* typescript-parser.adapter.ts: parse(), first pass (collectReexports),   *)
(* resolveReexportChains, and processImport with the collapsed table.      *)
(*                                                                         *)
(* A module specifier is given by the module id it resolves to             *)
(* (createModuleId(resolveImportPath(...))); a file by its module id.      *)
(***************************************************************************)
MaxExportElements == 1   \* elements of one export declaration
MaxImportElements == 1   \* elements of one import declaration's named bindings

FilePaths     == <<"a", "b">>       \* the files given to parse(), in order
TargetModules == {"a", "b", "c"}    \* what a module specifier can resolve to
Names         == {"f", "default"}   \* exported names

\* ---- Map<string, string>, in insertion order ----
MapKeys(m)   == {m[i].key : i \in 1..Len(m)}
MapHas(m, k) == k \in MapKeys(m)
MapGet(m, k) == m[CHOOSE i \in 1..Len(m) : m[i].key = k].value
MapSet(m, k, v) ==
  IF MapHas(m, k)
  THEN [i \in 1..Len(m) |-> IF m[i].key = k THEN [key |-> k, value |-> v] ELSE m[i]]
  ELSE Append(m, [key |-> k, value |-> v])

\* `${moduleId}#${name}`
SymbolId(moduleId, name) == moduleId \o "#" \o name

\* element.propertyName?.text || element.name.text
OriginalName(element) ==
  IF element.propertyName # None THEN element.propertyName ELSE element.name

\* export { name } / export { propertyName as name }
ExportElements ==
  {[name |-> n, propertyName |-> p] : n \in Names, p \in {None} \cup Names}

\* An export declaration: its module specifier (None for a local export list),
\* its export clause ("named" for { ... }, "none" for export * from) and the
\* elements of a named clause.
ExportDecls ==
  {[moduleSpecifier |-> t, exportClause |-> "named", elements |-> es] :
      t \in TargetModules, es \in SeqsUpTo(ExportElements, MaxExportElements)}
  \cup {[moduleSpecifier |-> "c", exportClause |-> "none", elements |-> <<>>],
        [moduleSpecifier |-> None, exportClause |-> "named",
         elements |-> <<[name |-> "f", propertyName |-> None]>>]}

\* the export declarations of one source file
FileExports == SeqsUpTo(ExportDecls, 2)

\* for (const element of node.exportClause.elements) reexportMap.set(...)
RECURSIVE SetElements(_, _, _, _)
SetElements(map, moduleId, targetModuleId, elements) ==
  IF elements = <<>> THEN map
  ELSE SetElements(MapSet(map,
                          SymbolId(moduleId, Head(elements).name),
                          SymbolId(targetModuleId, OriginalName(Head(elements)))),
                   moduleId, targetModuleId, Tail(elements))

\* collectReexports.visit on one export declaration
CollectDecl(map, moduleId, decl) ==
  IF decl.moduleSpecifier # None /\ decl.exportClause = "named"
  THEN SetElements(map, moduleId, decl.moduleSpecifier, decl.elements)
  ELSE map

RECURSIVE CollectDecls(_, _, _)
CollectDecls(map, moduleId, decls) ==
  IF decls = <<>> THEN map
  ELSE CollectDecls(CollectDecl(map, moduleId, Head(decls)), moduleId, Tail(decls))

\* parse(): for (const filePath of filePaths) this.collectReexports(...)
CollectReexports ==
  /\ parsePc = "collect"
  /\ fileIdx <= Len(FilePaths)
  /\ \E decls \in FileExports :
       reexportMap' = CollectDecls(reexportMap, FilePaths[fileIdx], decls)
  /\ fileIdx' = fileIdx + 1
  /\ UNCHANGED <<parsePc, resolved, entryIdx, current, visited, walkSteps,
                 importDecl, importEdges, buildVars, extractVars, laterVars>>

\* parse(): this.resolveReexportChains(reexportMap); const resolved = new Map()
BeginResolve ==
  /\ parsePc = "collect"
  /\ fileIdx > Len(FilePaths)
  /\ parsePc' = "resolve"
  /\ resolved' = <<>>
  /\ entryIdx' = 1
  /\ UNCHANGED <<reexportMap, fileIdx, current, visited, walkSteps,
                 importDecl, importEdges, buildVars, extractVars, laterVars>>

\* for (const [source, target] of reexportMap) { let current = target;
\*   const visited = new Set([source]);
ChainStart ==
  /\ parsePc = "resolve"
  /\ entryIdx <= Len(reexportMap)
  /\ current' = reexportMap[entryIdx].value
  /\ visited' = {reexportMap[entryIdx].key}
  /\ walkSteps' = 0
  /\ parsePc' = "walk"
  /\ UNCHANGED <<reexportMap, fileIdx, resolved, entryIdx,
                 importDecl, importEdges, buildVars, extractVars, laterVars>>

\* while (reexportMap.has(current) && !visited.has(current))
WalkContinuesNever(map, cur, vis) == FALSE

WalkContinuesUnvisited(map, cur, vis) == MapHas(map, cur)

WalkContinuesOnce(map, cur, vis) == MapHas(map, cur) /\ Cardinality(vis) = 1

WalkContinues(map, cur, vis) == MapHas(map, cur) /\ cur \notin vis

\*   { visited.add(current); current = reexportMap.get(current)!; }
ChainStep ==
  /\ parsePc = "walk"
  /\ WalkContinues(reexportMap, current, visited)
  /\ visited' = visited \cup {current}
  /\ current' = MapGet(reexportMap, current)
  /\ walkSteps' = walkSteps + 1
  /\ UNCHANGED <<reexportMap, fileIdx, parsePc, resolved, entryIdx,
                 importDecl, importEdges, buildVars, extractVars, laterVars>>

\*   resolved.set(source, current); }
ChainEnd ==
  /\ parsePc = "walk"
  /\ ~WalkContinues(reexportMap, current, visited)
  /\ resolved' = MapSet(resolved, reexportMap[entryIdx].key, current)
  /\ entryIdx' = entryIdx + 1
  /\ parsePc' = "resolve"
  /\ UNCHANGED <<reexportMap, fileIdx, current, visited, walkSteps,
                 importDecl, importEdges, buildVars, extractVars, laterVars>>

\* return resolved;
EndResolve ==
  /\ parsePc = "resolve"
  /\ entryIdx > Len(reexportMap)
  /\ parsePc' = "resolved"
  /\ UNCHANGED <<reexportMap, fileIdx, resolved, entryIdx, current, visited,
                 walkSteps, importDecl, importEdges, buildVars, extractVars, laterVars>>

\* ---- import declarations ----
\* import { name } / import { propertyName as name }
ImportElements ==
  {[name |-> "f", propertyName |-> None]}
  \cup {[name |-> "x", propertyName |-> p] : p \in Names}

NoBindings == [kind |-> "none", elements |-> <<>>, name |-> None]

\* importClause.namedBindings: absent, { ... } or * as name
NamedBindings ==
  {NoBindings, [kind |-> "namespace", elements |-> <<>>, name |-> "ns"]}
  \cup {[kind |-> "named", elements |-> es, name |-> None] :
          es \in SeqsUpTo(ImportElements, MaxImportElements)}

\* An import declaration: its module specifier and its import clause
\* (present = FALSE for a side-effect import; name = the default import's
\* local name or None).
ImportDecls ==
  {[moduleSpecifier |-> t,
    importClause |-> [present |-> TRUE, name |-> d, namedBindings |-> nb]] :
      t \in TargetModules, d \in {None, "D"}, nb \in NamedBindings}
  \cup {[moduleSpecifier |-> t,
         importClause |-> [present |-> FALSE, name |-> None, namedBindings |-> NoBindings]] :
          t \in TargetModules}

ImportEdge(source, target, importPath, symbol, namespace) ==
  [source |-> source, target |-> target, type |-> "import",
   metadata |-> [importPath |-> importPath, symbol |-> symbol, namespace |-> namespace]]

\* const resolveTarget = (symbolTarget) => reexportMap.get(symbolTarget) ?? symbolTarget
ResolveTarget(map, symbolTarget) ==
  IF MapHas(map, symbolTarget) THEN MapGet(map, symbolTarget) ELSE symbolTarget

\* for (const element of importClause.namedBindings.elements) edges.push(...)
RECURSIVE NamedImportEdges(_, _, _, _)
NamedImportEdges(elements, moduleId, targetModuleId, map) ==
  IF elements = <<>> THEN <<>>
  ELSE <<ImportEdge(moduleId,
                    ResolveTarget(map, SymbolId(targetModuleId, OriginalName(Head(elements)))),
                    targetModuleId, OriginalName(Head(elements)), None)>>
       \o NamedImportEdges(Tail(elements), moduleId, targetModuleId, map)

\* processImport(node, moduleId, filePath, rootDir, reexportMap, edges): the
\* edges it pushes, in order
ProcessImport(node, moduleId, map) ==
  LET targetModuleId == node.moduleSpecifier
      clause   == node.importClause
      bindings == clause.namedBindings
      named == IF clause.present /\ bindings.kind = "named"
               THEN NamedImportEdges(bindings.elements, moduleId, targetModuleId, map)
               ELSE <<>>
      default == IF clause.present /\ clause.name # None
                 THEN <<ImportEdge(moduleId,
                                   ResolveTarget(map, SymbolId(targetModuleId, "default")),
                                   targetModuleId, "default", None)>>
                 ELSE <<>>
  IN  IF clause.present /\ bindings.kind = "namespace"
      THEN \* module-level edge, then return
           named \o <<ImportEdge(moduleId, targetModuleId, targetModuleId, None, bindings.name)>>
      ELSE IF Len(named) + Len(default) = 0
           THEN \* importedSymbols.length === 0
                <<ImportEdge(moduleId, targetModuleId, targetModuleId, None, None)>>
           ELSE named \o default

\* parseSourceFile.visit: an import declaration of one of the files, handled
\* with the collapsed table
VisitImport ==
  /\ parsePc = "resolved"
  /\ \E i \in 1..Len(FilePaths), node \in ImportDecls :
       /\ importDecl' = <<[moduleId |-> FilePaths[i], node |-> node]>>
       /\ importEdges' = ProcessImport(node, FilePaths[i], resolved)
  /\ parsePc' = "imported"
  /\ UNCHANGED <<reexportMap, fileIdx, resolved, entryIdx, current, visited,
                 walkSteps, buildVars, extractVars, laterVars>>

InitReexport ==
  /\ reexportMap = <<>>
  /\ fileIdx = 1
  /\ parsePc = "collect"
  /\ resolved = <<>>
  /\ entryIdx = 0
  /\ current = None
  /\ visited = {}
  /\ walkSteps = 0
  /\ importDecl = <<>>
  /\ importEdges = <<>>
  /\ IdleBuild
  /\ IdleExtract
  /\ IdleLater

NextReexport ==
  \/ CollectReexports
  \/ BeginResolve
  \/ ChainStart
  \/ ChainStep
  \/ ChainEnd
  \/ EndResolve
  \/ VisitImport

SpecReexport == InitReexport /\ [][NextReexport]_vars

\* ---- what the claims speak of, defined on the raw table ----
Imported == parsePc = "imported"

\* the id reached from id by following the raw table for at most n hops
RECURSIVE Follow(_, _, _)
Follow(map, id, n) ==
  IF n = 0 \/ ~MapHas(map, id) THEN id ELSE Follow(map, MapGet(map, id), n - 1)

\* the end of id's chain in an acyclic table: a chain has at most Len(map) hops
Terminal(map, id) == Follow(map, id, Len(map))

\* no chain of the table comes back to a key: every chain ends outside the keys
Acyclic(map) == \A k \in MapKeys(map) : ~MapHas(map, Terminal(map, k))

\* the original names an import declaration imports, "default" included
ImportedNames(node) ==
  LET clause == node.importClause
  IN  (IF clause.present /\ clause.namedBindings.kind = "named"
       THEN {OriginalName(e) : e \in Range(clause.namedBindings.elements)}
       ELSE {})
      \cup (IF clause.present /\ clause.name # None THEN {"default"} ELSE {})

AllSymbolIds == {SymbolId(m, n) : m \in TargetModules, n \in Names}

\* C6: with an acyclic re-export table, every named or default import of an
\* import declaration has an import edge from the importing module's id to
\* the true defining symbol: the tentative id targetModule#originalName when
\* it is no re-export key, else the terminal id of its chain, itself never a
\* key; no symbol edge targets an intermediate (re-export) id.
C6_ImportEdgeToOrigin ==
  (Imported /\ Acyclic(reexportMap)) =>
    LET d == importDecl[1]
    IN  /\ \A n \in ImportedNames(d.node) :
             \E e \in Range(importEdges) :
               /\ e.source = d.moduleId
               /\ e.type = "import"
               /\ e.metadata.symbol = n
               /\ e.target = Terminal(reexportMap, SymbolId(d.node.moduleSpecifier, n))
        /\ \A e \in Range(importEdges) :
             e.metadata.symbol # None =>
               /\ e.target = Terminal(reexportMap,
                                      SymbolId(d.node.moduleSpecifier, e.metadata.symbol))
               /\ ~MapHas(reexportMap, e.target)

\* C7: resolving through the collapsed table is idempotent: an id that is no
\* key of the collapsed table resolves to itself, and resolving the result of
\* a resolution gives that result again.
C7_ResolveIdempotent ==
  parsePc \in {"resolved", "imported"} =>
    \A x \in AllSymbolIds :
      /\ ~MapHas(resolved, x) => ResolveTarget(resolved, x) = x
      /\ ResolveTarget(resolved, ResolveTarget(resolved, x)) = ResolveTarget(resolved, x)

C7_Witness ==
  /\ parsePc = "resolved"
  /\ \E x \in MapKeys(reexportMap) :
       /\ MapGet(resolved, x) # MapGet(reexportMap, x)
       /\ MapHas(resolved, MapGet(reexportMap, x))
       /\ ResolveTarget(resolved, MapGet(resolved, x)) = MapGet(resolved, x)

\* C8: resolveReexportChains terminates on every table, self-loops, cycles
\* and chains into a cycle included: the while loop of one entry iterates at
\* most as many times as the table has keys, and the walk can always go on to
\* its end.
C8_WalkBounded ==
  /\ parsePc = "walk" => walkSteps <= Cardinality(MapKeys(reexportMap))
  /\ parsePc \in {"resolve", "walk"} =>
       ENABLED (ChainStart \/ ChainStep \/ ChainEnd \/ EndResolve)

C8_Witness ==
  /\ parsePc = "walk"
  /\ walkSteps >= 2
  /\ MapHas(reexportMap, current)
  /\ current \in visited
  /\ current # reexportMap[entryIdx].key

(***************************************************************************)
(* typescript-parser.adapter.ts: parseSourceFile on one source file, given *)
(* the collapsed re-export table: module node, import map, import edges,   *)
(* class nodes, heritage edges, class member nodes and edges, and the      *)
(* declarations it registers for call-edge resolution.                     *)
(***************************************************************************)
MaxMembers == 2   \* members of a class declaration

NoMetadata == [importPath |-> None, symbol |-> None, namespace |-> None]

CreateNode(id, label, type) == [id |-> id, label |-> label, type |-> type]

CreateEdge(source, target, type) ==
  [source |-> source, target |-> target, type |-> type, metadata |-> NoMetadata]

\* ---- buildImportMap ----
\* for (const element of importClause.namedBindings.elements)
\*   importMap.set(localName, reexportMap.get(tentativeId) ?? tentativeId)
RECURSIVE BindElements(_, _, _, _)
BindElements(importMap, elements, sourceModuleId, map) ==
  IF elements = <<>> THEN importMap
  ELSE BindElements(
         MapSet(importMap, Head(elements).name,
                ResolveTarget(map, SymbolId(sourceModuleId, OriginalName(Head(elements))))),
         Tail(elements), sourceModuleId, map)

\* buildImportMap.visit on one import declaration
BindImport(importMap, node, map) ==
  LET clause == node.importClause
      named  == IF clause.present /\ clause.namedBindings.kind = "named"
                THEN BindElements(importMap, clause.namedBindings.elements,
                                  node.moduleSpecifier, map)
                ELSE importMap
  IN  IF clause.present /\ clause.name # None
      THEN MapSet(named, clause.name,
                  ResolveTarget(map, SymbolId(node.moduleSpecifier, "default")))
      ELSE named

RECURSIVE BuildImportMapFrom(_, _, _)
BuildImportMapFrom(importMap, statements, map) ==
  IF statements = <<>> THEN importMap
  ELSE BuildImportMapFrom(
         IF Head(statements).kind = "import"
         THEN BindImport(importMap, Head(statements).node, map)
         ELSE importMap,
         Tail(statements), map)

BuildImportMap(file, map) == BuildImportMapFrom(<<>>, file.statements, map)

\* ---- processHeritageClause ----
\* importMap.get(symbolName) || `${moduleId}#${symbolName}`
HeritageTargetLocalGuess(importMap, moduleId, symbolName) ==
  SymbolId(moduleId, symbolName)

HeritageTarget(importMap, moduleId, symbolName) ==
  IF MapHas(importMap, symbolName)
  THEN MapGet(importMap, symbolName)
  ELSE SymbolId(moduleId, symbolName)

RECURSIVE HeritageTypeEdges(_, _, _, _, _)
HeritageTypeEdges(types, edgeType, classId, moduleId, importMap) ==
  IF types = <<>> THEN <<>>
  ELSE (IF Head(types).isIdentifier
        THEN <<CreateEdge(classId,
                          HeritageTarget(importMap, moduleId, Head(types).text),
                          edgeType)>>
        ELSE <<>>)
       \o HeritageTypeEdges(Tail(types), edgeType, classId, moduleId, importMap)

RECURSIVE ProcessHeritageClause(_, _, _, _)
ProcessHeritageClause(clauses, classId, moduleId, importMap) ==
  IF clauses = <<>> THEN <<>>
  ELSE HeritageTypeEdges(Head(clauses).types,
                         IF Head(clauses).token = "extends" THEN "extends" ELSE "implements",
                         classId, moduleId, importMap)
       \o ProcessHeritageClause(Tail(clauses), classId, moduleId, importMap)

\* ---- processClassMembers ----
\* if (isPrivate || isProtected) continue;
IsHiddenPrivateOnly(member) == "private" \in member.modifiers

IsHidden(member) ==
  "private" \in member.modifiers \/ "protected" \in member.modifiers

\* the node of one member, if it gets one
MemberNodes(member, classId) ==
  IF IsHidden(member) THEN <<>>
  ELSE IF member.kind = "method" /\ member.name.isIdentifier
       THEN <<CreateNode(classId \o "." \o member.name.text, member.name.text, "method")>>
       ELSE IF member.kind = "property" /\ member.name.isIdentifier
            THEN <<CreateNode(classId \o "." \o member.name.text, member.name.text, "field")>>
            ELSE <<>>

RECURSIVE ProcessClassMembers(_, _)
ProcessClassMembers(members, classId) ==
  IF members = <<>> THEN <<>>
  ELSE MemberNodes(Head(members), classId) \o ProcessClassMembers(Tail(members), classId)

\* isReactClassComponent: extends Component / PureComponent (or a text that
\* holds React.Component / React.PureComponent), or has a render method
IsReactClassComponent(class) ==
  \/ \E c \in Range(class.heritageClauses) :
       /\ c.token = "extends"
       /\ \E t \in Range(c.types) :
            t.text \in {"Component", "PureComponent", "React.Component", "React.PureComponent"}
  \/ \E m \in Range(class.members) :
       m.kind = "method" /\ m.name.isIdentifier /\ m.name.text = "render"

\* processClassDeclaration
ProcessClassDeclaration(class, moduleId) ==
  CreateNode(SymbolId(moduleId, class.name), class.name,
             IF IsReactClassComponent(class) THEN "component" ELSE "class")

\* for (const memberNode of memberNodes) edges.push(class -> member, 'export')
MemberEdges(memberNodes, classId) ==
  [i \in 1..Len(memberNodes) |-> CreateEdge(classId, memberNodes[i].id, "export")]

\* for (const member of node.members) registerSymbol(member, `${classId}.${memberName}`)
RECURSIVE RegisterMembers(_, _)
RegisterMembers(members, classId) ==
  IF members = <<>> THEN <<>>
  ELSE (IF Head(members).kind \in {"method", "property"}
        THEN <<[declaration |-> Head(members),
                nodeId |-> classId \o "." \o Head(members).name.text]>>
        ELSE <<>>)
       \o RegisterMembers(Tail(members), classId)

\* parseSourceFile.visit on one statement: what it adds to nodes, edges and
\* declarationToNodeId
VisitStatement(out, statement, moduleId, importMap, map) ==
  IF statement.kind = "import"
  THEN [out EXCEPT !.edges = @ \o ProcessImport(statement.node, moduleId, map)]
  ELSE IF statement.kind = "class" /\ statement.node.name # None
       THEN LET class       == statement.node
                classNode   == ProcessClassDeclaration(class, moduleId)
                memberNodes == ProcessClassMembers(class.members, classNode.id)
            IN  [out EXCEPT
                   !.nodes = @ \o <<classNode>> \o memberNodes,
                   !.edges = @ \o <<CreateEdge(moduleId, classNode.id, "export")>>
                               \o ProcessHeritageClause(class.heritageClauses,
                                                        classNode.id, moduleId, importMap)
                               \o MemberEdges(memberNodes, classNode.id),
                   !.registered = @ \o <<[declaration |-> class, nodeId |-> classNode.id]>>
                                    \o RegisterMembers(class.members, classNode.id)]
       ELSE out

RECURSIVE VisitStatements(_, _, _, _, _)
VisitStatements(out, statements, moduleId, importMap, map) ==
  IF statements = <<>> THEN out
  ELSE VisitStatements(VisitStatement(out, Head(statements), moduleId, importMap, map),
                       Tail(statements), moduleId, importMap, map)

\* parseSourceFile(sourceFile, rootDir, reexportMap, ...)
ParseSourceFile(file, map) ==
  VisitStatements([filePath   |-> file.moduleId,
                   nodes      |-> <<CreateNode(file.moduleId, file.moduleId, "module")>>,
                   edges      |-> <<>>,
                   registered |-> <<>>],
                  file.statements, file.moduleId, BuildImportMap(file, map), map)

\* ---- the source files parseSourceFile is applied to ----
\* import { Base } / import { A as Base } / import { Base as Other }
LocalImportElements ==
  {[name |-> "Base", propertyName |-> None],
   [name |-> "Base", propertyName |-> "A"],
   [name |-> "Other", propertyName |-> "Base"]}

LocalNamedBindings ==
  {NoBindings, [kind |-> "namespace", elements |-> <<>>, name |-> "Base"]}
  \cup {[kind |-> "named", elements |-> es, name |-> None] :
          es \in SeqsUpTo(LocalImportElements, MaxImportElements)}

LocalImportDecls ==
  {[moduleSpecifier |-> t,
    importClause |-> [present |-> TRUE, name |-> d, namedBindings |-> nb]] :
      t \in {"b", "c"}, d \in {None, "Base"}, nb \in LocalNamedBindings}
  \cup {[moduleSpecifier |-> "b",
         importClause |-> [present |-> FALSE, name |-> None, namedBindings |-> NoBindings]]}

\* extends Base / implements Local / extends ns.Base (no identifier)
HeritageTypes ==
  {[isIdentifier |-> TRUE, text |-> "Base"],
   [isIdentifier |-> TRUE, text |-> "Local"],
   [isIdentifier |-> FALSE, text |-> "ns.Base"]}

ExtendsClauses == {[token |-> "extends", types |-> <<t>>] : t \in HeritageTypes}

ImplementsClauses ==
  {[token |-> "implements", types |-> ts] : ts \in SeqsUpTo(HeritageTypes, 2) \ {<<>>}}

HeritageClauseSeqs ==
  {<<>>} \cup {<<c>> : c \in ExtendsClauses \cup ImplementsClauses}
  \cup {<<c, d>> : c \in ExtendsClauses, d \in ImplementsClauses}

\* class members: methods and properties (named by an identifier or, as 'm',
\* by a string literal), constructors, get accessors; with their modifiers
MemberModifiers == {{}, {"public"}, {"private"}, {"protected"}}

Members ==
  {[kind |-> k, name |-> [isIdentifier |-> TRUE, text |-> n], modifiers |-> m] :
      k \in {"method", "property"}, n \in {"m", "n"}, m \in MemberModifiers}
  \cup {[kind |-> k, name |-> [isIdentifier |-> FALSE, text |-> "'m'"], modifiers |-> {}] :
          k \in {"method", "property"}}
  \cup {[kind |-> "constructor", name |-> [isIdentifier |-> FALSE, text |-> "constructor"],
         modifiers |-> m] : m \in {{}, {"private"}}}
  \cup {[kind |-> "getAccessor", name |-> [isIdentifier |-> TRUE, text |-> "m"],
         modifiers |-> {}]}

ClassNames == {"K", None}   \* None: export default class { ... }

Class(name, heritageClauses, members) ==
  [kind |-> "class",
   node |-> [name |-> name, heritageClauses |-> heritageClauses, members |-> members]]

\* a file with at most one import declaration and a class with heritage clauses
HeritageFiles ==
  {[moduleId |-> "a",
    statements |-> [i \in 1..Len(imps) |-> [kind |-> "import", node |-> imps[i]]]
                   \o <<Class(n, h, <<>>)>>] :
      imps \in SeqsUpTo(LocalImportDecls, 1), n \in ClassNames, h \in HeritageClauseSeqs}

\* a file with a class with members
MemberFiles ==
  {[moduleId |-> "a", statements |-> <<Class(n, <<>>, ms)>>] :
      n \in ClassNames, ms \in SeqsUpTo(Members, MaxMembers)}

SourceFiles == HeritageFiles \cup MemberFiles

\* collapsed re-export tables: the empty one, and tables of one entry whose
\* value is no key (resolveReexportChains returns such a table as it is)
ExtractTables ==
  {<<>>} \cup {<<[key |-> SymbolId("b", n), value |-> SymbolId("c", "Origin")]>> :
                 n \in {"Base", "A", "default"}}

\* parse(): second pass, one file
ParseFile ==
  /\ extractPc = "ready"
  /\ \E file \in SourceFiles :
       /\ sourceFile' = <<file>>
       /\ parsed' = <<ParseSourceFile(file, extractMap)>>
  /\ extractPc' = "parsed"
  /\ UNCHANGED <<extractMap, buildVars, reexpVars, laterVars>>

InitExtract ==
  /\ sourceFile = <<>>
  /\ extractMap \in ExtractTables
  /\ parsed = <<>>
  /\ extractPc = "ready"
  /\ IdleBuild
  /\ IdleReexport
  /\ IdleLater

NextExtract == ParseFile

SpecExtract == InitExtract /\ [][NextExtract]_vars

\* ---- what the claims speak of ----
Parsed == extractPc = "parsed"

\* the class declaration of the parsed file (its last statement)
TheClass == sourceFile[1].statements[Len(sourceFile[1].statements)].node

TheModuleId == sourceFile[1].moduleId

TheClassId == SymbolId(TheModuleId, TheClass.name)

ImportNodes ==
  {st.node : st \in {x \in Range(sourceFile[1].statements) : x.kind = "import"}}

\* the ids the file's named and default imports bind to a local name, seen
\* through the collapsed table (a namespace import binds no symbol id)
BoundIds(local) ==
  UNION {
    (IF d.importClause.present /\ d.importClause.namedBindings.kind = "named"
     THEN {ResolveTarget(extractMap, SymbolId(d.moduleSpecifier, OriginalName(e))) :
             e \in {x \in Range(d.importClause.namedBindings.elements) : x.name = local}}
     ELSE {})
    \cup (IF d.importClause.present /\ d.importClause.name = local
          THEN {ResolveTarget(extractMap, SymbolId(d.moduleSpecifier, "default"))}
          ELSE {}) : d \in ImportNodes}

\* where the heritage edge of a base named by the identifier local must go
HeritageTargets(local) ==
  IF BoundIds(local) # {} THEN BoundIds(local) ELSE {SymbolId(TheModuleId, local)}

HeritageEdges ==
  SelectSeq(parsed[1].edges, LAMBDA e : e.type \in {"extends", "implements"})

MemberNodesOut ==
  SelectSeq(parsed[1].nodes, LAMBDA n : n.type \in {"method", "field"})

MemberEdgesOut ==
  SelectSeq(parsed[1].edges, LAMBDA e : e.type = "export" /\ e.source # TheModuleId)

NotPrivateOrProtected(m) ==
  "private" \notin m.modifiers /\ "protected" \notin m.modifiers

\* the members that are not marked private or protected
PublicMembers == SelectSeq(TheClass.members, NotPrivateOrProtected)

\* of these, the method and property declarations named by an identifier
NodeMembers ==
  SelectSeq(PublicMembers,
            LAMBDA m : m.kind \in {"method", "property"} /\ m.name.isIdentifier)

\* out holds, in order, one node classId.name and one edge from the class for
\* each member of ms, and nothing else
OneNodeEach(ms) ==
  /\ Len(MemberNodesOut) = Len(ms)
  /\ Len(MemberEdgesOut) = Len(ms)
  /\ \A i \in 1..Len(ms) :
       /\ MemberNodesOut[i].id = TheClassId \o "." \o ms[i].name.text
       /\ MemberEdgesOut[i] = CreateEdge(TheClassId, MemberNodesOut[i].id, "export")

\* C10 as claimed: no private or protected member produces a node, and every
\* other member produces exactly one node classId.memberName with an 'export'
\* edge from the class id.
C10_EveryPublicMemberHasNode ==
  (Parsed /\ TheClass.name # None) => OneNodeEach(PublicMembers)

\* C10 (amended): in a named class declaration no private or protected member
\* produces a node; every other method or property declaration whose name is
\* an identifier produces one node classId.memberName (type method or field)
\* with an 'export' edge from the class id; constructors, accessors and
\* members named otherwise produce none.
C10_PublicMethodsAndFieldsHaveNodes ==
  (Parsed /\ TheClass.name # None) =>
    /\ OneNodeEach(NodeMembers)
    /\ \A i \in 1..Len(NodeMembers) :
         MemberNodesOut[i].type =
           (IF NodeMembers[i].kind = "method" THEN "method" ELSE "field")

C10_Witness ==
  /\ Parsed
  /\ TheClass.name = "K"
  /\ Len(TheClass.members) = 2
  /\ TheClass.members[1].modifiers = {"private"}
  /\ TheClass.members[1].kind = "method"
  /\ TheClass.members[2].kind = "property"
  /\ TheClass.members[2].modifiers = {}
  /\ Len(MemberNodesOut) = 1
  /\ MemberNodesOut[1].id = "a#K.n"
  /\ MemberEdgesOut = <<CreateEdge("a#K", "a#K.n", "export")>>

(***************************************************************************)
(* typescript-parser.adapter.ts: collectCallEdges on one source file.      *)
(*                                                                         *)
(* visit() is applied to the syntax nodes of the file one after the other  *)
(* (ts.forEachChild); a syntax node is given by its kind, by what its      *)
(* parent makes of it, by the symbol the type checker finds at the         *)
(* location the code asks about, and by its ancestors, innermost first.    *)
(***************************************************************************)
MaxCallNodes == 2   \* syntax nodes visit() is applied to in one file

ModuleIds == {"a", "a->b"}   \* createModuleId(relativeFilePath) of the file

\* ---- the ancestors of a node ----
Ancestor(kind, name) == [kind |-> kind, name |-> name]

AncestorChains ==
  {<<>>,
   <<Ancestor("FunctionDeclaration", "f")>>,
   <<Ancestor("FunctionDeclaration", None)>>,
   <<Ancestor("Block", None), Ancestor("MethodDeclaration", "m"),
     Ancestor("ClassDeclaration", "K")>>,
   <<Ancestor("MethodDeclaration", "m"), Ancestor("ClassDeclaration", None)>>,
   <<Ancestor("ArrowFunction", None), Ancestor("VariableDeclaration", "v")>>,
   <<Ancestor("ArrowFunction", None), Ancestor("CallExpression", None),
     Ancestor("FunctionDeclaration", "f")>>,
   <<Ancestor("FunctionExpression", None), Ancestor("VariableDeclaration", "v")>>,
   <<Ancestor("ArrowFunction", None), Ancestor("CallExpression", None),
     Ancestor("VariableDeclaration", "v")>>}

\* every reference is taken to stand at module level
FindNoEnclosingSymbol(ancestors, currentModuleId) == currentModuleId

\* findEnclosingSymbolId: let current = node.parent; while (current) ...
RECURSIVE FindEnclosingSymbolId(_, _)
FindEnclosingSymbolId(ancestors, currentModuleId) ==
  IF ancestors = <<>> THEN currentModuleId
  ELSE LET cur     == Head(ancestors)
           hasPar  == Len(ancestors) > 1
           parent  == ancestors[2]
       IN  IF cur.kind = "FunctionDeclaration" /\ cur.name # None
           THEN currentModuleId \o "#" \o cur.name
           ELSE IF /\ cur.kind \in {"FunctionExpression", "ArrowFunction"}
                   /\ hasPar
                   /\ parent.kind = "VariableDeclaration"
                   /\ parent.name # None
                THEN currentModuleId \o "#" \o parent.name
                ELSE IF /\ cur.kind = "MethodDeclaration"
                        /\ cur.name # None
                        /\ hasPar
                        /\ parent.kind = "ClassDeclaration"
                        /\ parent.name # None
                     THEN currentModuleId \o "#" \o parent.name \o "." \o cur.name
                     ELSE FindEnclosingSymbolId(Tail(ancestors), currentModuleId)

\* ---- the symbols of the program and the tables the second pass filled ----
\* f, K, m, v are declared in the file itself, g and I in module b; impG is
\* the file's import binding of g; x is a global (declared nowhere in the
\* project)
SymbolToNodeIdOf(currentModuleId) ==
  <<[key |-> "f", value |-> SymbolId(currentModuleId, "f")],
    [key |-> "K", value |-> SymbolId(currentModuleId, "K")],
    [key |-> "m", value |-> SymbolId(currentModuleId, "K") \o "." \o "m"],
    [key |-> "v", value |-> SymbolId(currentModuleId, "v")],
    [key |-> "g", value |-> SymbolId("b", "g")]>>

\* an interface declaration is registered by its declaration only
DeclarationToNodeIdOf(currentModuleId) ==
  <<[key |-> "decl f", value |-> SymbolId(currentModuleId, "f")],
    [key |-> "decl g", value |-> SymbolId("b", "g")],
    [key |-> "decl I", value |-> SymbolId("b", "I")]>>

\* typeChecker.getAliasedSymbol(symbol); None where it throws
GetAliasedSymbol(symbol) == IF symbol = "impG" THEN "g" ELSE None

\* symbol.getDeclarations()
GetDeclarations(symbol) ==
  CASE symbol = "f" -> <<"decl f">>
    [] symbol = "g" -> <<"decl g">>
    [] symbol = "I" -> <<"ambient I", "decl I">>
    [] symbol = "impG" -> <<"import specifier g">>
    [] OTHER -> <<>>

RECURSIVE FirstRegistered(_, _)
FirstRegistered(declarations, declToNodeId) ==
  IF declarations = <<>> THEN None
  ELSE IF MapHas(declToNodeId, Head(declarations))
       THEN MapGet(declToNodeId, Head(declarations))
       ELSE FirstRegistered(Tail(declarations), declToNodeId)

\* resolveSymbolToNodeId; None is null
ResolveSymbolToNodeId(symbol, symToNodeId, declToNodeId) ==
  IF MapHas(symToNodeId, symbol) THEN MapGet(symToNodeId, symbol)
  ELSE IF /\ GetAliasedSymbol(symbol) # None
          /\ MapHas(symToNodeId, GetAliasedSymbol(symbol))
       THEN MapGet(symToNodeId, GetAliasedSymbol(symbol))
       ELSE FirstRegistered(GetDeclarations(symbol), declToNodeId)

\* ---- addCallEdge ----
CallEdgeKey(sourceId, targetId) == sourceId \o "->" \o targetId

AddCallEdgeKeepsSelf(acc, sourceId, targetId) ==
  IF CallEdgeKey(sourceId, targetId) \notin acc.addedEdges
  THEN [edges      |-> Append(acc.edges, CreateEdge(sourceId, targetId, "call")),
        addedEdges |-> acc.addedEdges \cup {CallEdgeKey(sourceId, targetId)}]
  ELSE acc

AddCallEdgeNoDedup(acc, sourceId, targetId) ==
  IF sourceId # targetId
  THEN [edges      |-> Append(acc.edges, CreateEdge(sourceId, targetId, "call")),
        addedEdges |-> acc.addedEdges \cup {CallEdgeKey(sourceId, targetId)}]
  ELSE acc

\* if (!addedEdges.has(edgeKey) && sourceId !== targetId) { add; push }
AddCallEdge(acc, sourceId, targetId) ==
  IF CallEdgeKey(sourceId, targetId) \notin acc.addedEdges /\ sourceId # targetId
  THEN [edges      |-> Append(acc.edges, CreateEdge(sourceId, targetId, "call")),
        addedEdges |-> acc.addedEdges \cup {CallEdgeKey(sourceId, targetId)}]
  ELSE acc

\* ---- visit ----
\* node.parent followed by the ancestors above it
Parents(node) == <<Ancestor(node.parentKind, None)>> \o node.ancestors

\* const symbol = getSymbolAtLocation(...); if (symbol) { const targetId =
\* resolveSymbolToNodeId(symbol); if (targetId) addCallEdge(sourceId, targetId) }
AddResolved(acc, node, sourceId, symToNodeId, declToNodeId) ==
  LET targetId == ResolveSymbolToNodeId(node.symbol, symToNodeId, declToNodeId)
  IN  IF node.symbol # None /\ targetId # None
      THEN AddCallEdge(acc, sourceId, targetId)
      ELSE acc

DeclarationKinds ==
  {"VariableDeclaration", "FunctionDeclaration", "Parameter", "ImportSpecifier",
   "ExportSpecifier", "ClassDeclaration", "InterfaceDeclaration",
   "TypeAliasDeclaration", "EnumDeclaration", "MethodDeclaration",
   "PropertyDeclaration", "ImportClause", "NamespaceImport"}

\* visit(node), without the descent into the children (they are the nodes
\* visit is applied to next)
Visit(acc, node, currentModuleId, symToNodeId, declToNodeId) ==
  LET sourceId == FindEnclosingSymbolId(Parents(node), currentModuleId)
  IN  IF node.kind = "CallExpression"
      THEN IF sourceId = "" THEN acc
           ELSE IF node.expression \in {"Identifier", "PropertyAccessExpression"}
                THEN AddResolved(acc, node, sourceId, symToNodeId, declToNodeId)
                ELSE acc
      ELSE IF node.kind = "NewExpression"
      THEN IF sourceId = "" THEN acc
           ELSE IF node.expression = "Identifier"
                THEN AddResolved(acc, node, sourceId, symToNodeId, declToNodeId)
                ELSE acc
      ELSE IF node.kind = "PropertyAccessExpression"
      THEN IF node.parentKind = "CallExpression" \/ sourceId = "" THEN acc
           ELSE AddResolved(acc, node, sourceId, symToNodeId, declToNodeId)
      ELSE IF node.kind = "Identifier"
      THEN IF \/ node.parentKind = "PropertyAccessExpression" /\ node.slot = "name"
              \/ node.parentKind = "CallExpression" /\ node.slot = "expression"
              \/ node.parentKind = "NewExpression" /\ node.slot = "expression"
              \/ node.parentKind \in DeclarationKinds
              \/ sourceId = ""
           THEN acc
           ELSE AddResolved(acc, node, sourceId, symToNodeId, declToNodeId)
      ELSE acc

\* ---- the syntax nodes of the files collectCallEdges is applied to ----
SyntaxNode(kind, expression, parentKind, slot, symbol, ancestors) ==
  [kind |-> kind, expression |-> expression, parentKind |-> parentKind,
   slot |-> slot, symbol |-> symbol, ancestors |-> ancestors]

\* f() / o.m() / new K() / o.m / a bare identifier: the shapes that are uses
UseShapes ==
  {<<"CallExpression", "Identifier", "ExpressionStatement", "expression">>,
   <<"CallExpression", "PropertyAccessExpression", "ExpressionStatement", "expression">>,
   <<"NewExpression", "Identifier", "ExpressionStatement", "expression">>,
   <<"PropertyAccessExpression", None, "ExpressionStatement", "expression">>,
   <<"Identifier", None, "ReturnStatement", "expression">>,
   <<"Identifier", None, "CallExpression", "arguments">>}

\* f()() / new o.K() / the o.m of o.m() / the m of o.m / the f of f() / the K
\* of new K() / the x of const x / a parameter / a literal
OtherShapes ==
  {<<"CallExpression", "CallExpression", "ExpressionStatement", "expression">>,
   <<"NewExpression", "PropertyAccessExpression", "ExpressionStatement", "expression">>,
   <<"PropertyAccessExpression", None, "CallExpression", "expression">>,
   <<"Identifier", None, "PropertyAccessExpression", "name">>,
   <<"Identifier", None, "CallExpression", "expression">>,
   <<"Identifier", None, "NewExpression", "expression">>,
   <<"Identifier", None, "VariableDeclaration", "name">>,
   <<"Identifier", None, "Parameter", "name">>,
   <<"StringLiteral", None, "CallExpression", "arguments">>}

SyntaxNodes ==
  {SyntaxNode(sh[1], sh[2], sh[3], sh[4], sym, anc) :
     sh \in UseShapes, sym \in {"f", "m", "impG"},
     anc \in {<<>>, <<Ancestor("FunctionDeclaration", "f")>>}}
  \cup {SyntaxNode("CallExpression", "Identifier", "ExpressionStatement", "expression",
                   sym, anc) :
          sym \in {"f", "I", "x", None}, anc \in AncestorChains}
  \cup {SyntaxNode(sh[1], sh[2], sh[3], sh[4], "f", <<Ancestor("FunctionDeclaration", "f")>>) :
          sh \in OtherShapes}
  \cup {SyntaxNode("Identifier", None, "ArrowFunction", "body", "f",
                   <<Ancestor("VariableDeclaration", "v")>>)}

\* ---- collectCallEdges, node by node ----
VisitNode ==
  /\ callPc = "visiting"
  /\ Len(callNodes) < MaxCallNodes
  /\ \E node \in SyntaxNodes :
       LET acc == Visit([edges |-> callEdges, addedEdges |-> addedEdges], node,
                        callModule, SymbolToNodeIdOf(callModule),
                        DeclarationToNodeIdOf(callModule))
       IN  /\ callNodes' = Append(callNodes, node)
           /\ callEdges' = acc.edges
           /\ addedEdges' = acc.addedEdges
  /\ UNCHANGED <<callModule, callPc, earlierVars, restVars, passVars, watchVars>>

\* return edges
ReturnCallEdges ==
  /\ callPc = "visiting"
  /\ callPc' = "returned"
  /\ UNCHANGED <<callModule, callNodes, callEdges, addedEdges, earlierVars, restVars, passVars, watchVars>>

InitCalls ==
  /\ callModule \in ModuleIds
  /\ callNodes = <<>>
  /\ callEdges = <<>>
  /\ addedEdges = {}
  /\ callPc = "visiting"
  /\ IdleBuild
  /\ IdleReexport
  /\ IdleExtract
  /\ IdlePasses
  /\ IdleWatch
  /\ IdleRest

NextCalls == VisitNode \/ ReturnCallEdges

SpecCalls == InitCalls /\ [][NextCalls]_vars

\* ---- what the claims speak of ----
CallsReturned == callPc = "returned"

\* the visited nodes that are uses of a symbol the project declares
IsUse(node) ==
  /\ <<node.kind, node.expression, node.parentKind, node.slot>> \in UseShapes
  /\ node.symbol # None
  /\ ResolveSymbolToNodeId(node.symbol, SymbolToNodeIdOf(callModule),
                           DeclarationToNodeIdOf(callModule)) # None

\* the declaration a use stands in, and the declaration it refers to
UseSource(node) == FindEnclosingSymbolId(Parents(node), callModule)
UseTarget(node) ==
  ResolveSymbolToNodeId(node.symbol, SymbolToNodeIdOf(callModule),
                        DeclarationToNodeIdOf(callModule))

Uses == {i \in 1..Len(callNodes) : IsUse(callNodes[i])}

HasCallEdge(sourceId, targetId) ==
  \E e \in Range(callEdges) : e.source = sourceId /\ e.target = targetId

\* C11: no call edge collectCallEdges produced has source equal to target; a
\* use found inside a declaration that refers to that same declaration (direct
\* recursion) leaves no edge.
C11_NoSelfCallEdge ==
  /\ \A e \in Range(callEdges) : e.source # e.target
  /\ \A i \in Uses :
       UseSource(callNodes[i]) = UseTarget(callNodes[i])
         => ~HasCallEdge(UseSource(callNodes[i]), UseTarget(callNodes[i]))

\* a file with a recursive use and another use that did produce an edge
C11_Witness ==
  /\ CallsReturned
  /\ \E i \in Uses : UseSource(callNodes[i]) = UseTarget(callNodes[i])
  /\ Len(callEdges) = 1

\* C12: collectCallEdges emits at most one edge per (source, target) pair,
\* whatever the number and the forms of the uses; every pair of a use whose
\* source differs from its target has its edge (no two pairs are collapsed);
\* every edge has type 'call'.
C12_OneCallEdgePerPair ==
  /\ \A i, j \in 1..Len(callEdges) :
       (callEdges[i].source = callEdges[j].source
        /\ callEdges[i].target = callEdges[j].target) => i = j
  /\ \A i \in Uses :
       UseSource(callNodes[i]) # UseTarget(callNodes[i])
         => HasCallEdge(UseSource(callNodes[i]), UseTarget(callNodes[i]))
  /\ \A e \in Range(callEdges) : e.type = "call"

\* the same target used twice inside the same source, in two different forms
C12_Witness ==
  /\ CallsReturned
  /\ \E i, j \in Uses :
       /\ i # j
       /\ callNodes[i].kind # callNodes[j].kind
       /\ UseSource(callNodes[i]) = UseSource(callNodes[j])
       /\ UseTarget(callNodes[i]) = UseTarget(callNodes[j])
       /\ UseSource(callNodes[i]) # UseTarget(callNodes[i])
  /\ Len(callEdges) = 1

(***************************************************************************)
(* typescript-parser.adapter.ts: parse(), its three passes over the files, *)
(* one file of one loop at a time.                                         *)
(***************************************************************************)
MaxProgramFiles == 2   \* files given to parse()

\* resolveReexportChains as a function of the table
RECURSIVE WalkChain(_, _, _)
WalkChain(map, cur, vis) ==
  IF WalkContinues(map, cur, vis)
  THEN WalkChain(map, MapGet(map, cur), vis \cup {cur})
  ELSE cur

RECURSIVE ResolveEntries(_, _, _)
ResolveEntries(map, entries, res) ==
  IF entries = <<>> THEN res
  ELSE ResolveEntries(map, Tail(entries),
                      MapSet(res, Head(entries).key,
                             WalkChain(map, Head(entries).value, {Head(entries).key})))

ResolveReexportChains(map) == ResolveEntries(map, map, <<>>)

\* registerSymbol(node, nodeId): the symbol of a top-level declaration or of
\* a class member is named after what it declares
RegisterSymbol(tables, reg) ==
  [symbolToNodeId      |-> MapSet(tables.symbolToNodeId,
                                  "symbol " \o reg.nodeId, reg.nodeId),
   declarationToNodeId |-> MapSet(tables.declarationToNodeId,
                                  "decl " \o reg.nodeId, reg.nodeId)]

RECURSIVE RegisterSymbols(_, _)
RegisterSymbols(tables, regs) ==
  IF regs = <<>> THEN tables
  ELSE RegisterSymbols(RegisterSymbol(tables, Head(regs)), Tail(regs))

\* collectCallEdges(sourceFile, ...): visit over the nodes of the file
RECURSIVE VisitNodes(_, _, _, _, _)
VisitNodes(acc, nodes, currentModuleId, symToNodeId, declToNodeId) ==
  IF nodes = <<>> THEN acc
  ELSE VisitNodes(Visit(acc, Head(nodes), currentModuleId, symToNodeId, declToNodeId),
                  Tail(nodes), currentModuleId, symToNodeId, declToNodeId)

CollectCallEdges(file, symToNodeId, declToNodeId) ==
  VisitNodes([edges |-> <<>>, addedEdges |-> {}], file.nodes, file.moduleId,
             symToNodeId, declToNodeId).edges

\* ---- the files of the program ----
ProgramFile(moduleId, present, exports, statements, nodes) ==
  [moduleId |-> moduleId, present |-> present, exports |-> exports,
   statements |-> statements, nodes |-> nodes]

\* class K { m() {} }
ClassK ==
  Class("K", <<>>, <<[kind |-> "method", name |-> [isIdentifier |-> TRUE, text |-> "m"],
                      modifiers |-> {}]>>)

\* import { f } from '<target>'
ImportF(target) ==
  [kind |-> "import",
   node |-> [moduleSpecifier |-> target,
             importClause |-> [present |-> TRUE, name |-> None,
                               namedBindings |-> [kind |-> "named",
                                                  elements |-> <<[name |-> "f", propertyName |-> None]>>,
                                                  name |-> None]]]]

\* export { f } from '<target>'
ExportF(target) ==
  [moduleSpecifier |-> target, exportClause |-> "named",
   elements |-> <<[name |-> "f", propertyName |-> None]>>]

\* new K() at module level, K being the class of module <m>
NewK(m) ==
  SyntaxNode("NewExpression", "Identifier", "ExpressionStatement", "expression",
             "symbol " \o SymbolId(m, "K"), <<>>)

\* this.m() inside method m of class K of module <m>
CallM(m) ==
  SyntaxNode("CallExpression", "PropertyAccessExpression", "ExpressionStatement",
             "expression", "symbol " \o SymbolId(m, "K") \o ".m",
             <<Ancestor("Block", None), Ancestor("MethodDeclaration", "m"),
               Ancestor("ClassDeclaration", "K")>>)

\* class K { private m() {} }
ClassKPrivateM ==
  Class("K", <<>>, <<[kind |-> "method", name |-> [isIdentifier |-> TRUE, text |-> "m"],
                      modifiers |-> {"private"}]>>)

\* new K() inside method m of class K of module <m>
NewKInM(m) ==
  SyntaxNode("NewExpression", "Identifier", "ExpressionStatement", "expression",
             "symbol " \o SymbolId(m, "K"),
             <<Ancestor("Block", None), Ancestor("MethodDeclaration", "m"),
               Ancestor("ClassDeclaration", "K")>>)

\* present = FALSE: program.getSourceFile(filePath) is undefined
ProgramFiles ==
  {ProgramFile("a", TRUE, <<>>, <<ImportF("b"), ClassK>>, <<NewK("b"), CallM("a")>>),
   ProgramFile("a", TRUE, <<ExportF("b")>>, <<>>, <<>>),
   ProgramFile("b", TRUE, <<ExportF("c")>>, <<ClassK>>, <<NewK("a")>>),
   ProgramFile("b", TRUE, <<>>, <<ImportF("a")>>, <<NewK("c")>>),
   ProgramFile("b", FALSE, <<ExportF("c")>>, <<ClassK>>, <<>>),
   ProgramFile("c", TRUE, <<>>, <<ImportF("a"), ClassK>>, <<NewK("a"), NewK("b")>>),
   ProgramFile("c", TRUE, <<>>, <<ClassKPrivateM>>, <<NewKInM("c")>>)}

Programs ==
  {fs \in SeqsUpTo(ProgramFiles, MaxProgramFiles) :
     \A i, j \in 1..Len(fs) : fs[i].moduleId = fs[j].moduleId => i = j}

\* for (const x of xs): the loop has handled idx elements and is done
LoopDoneAfterFirst(idx, xs) == idx >= 1 \/ idx = Len(xs)

LoopDone(idx, xs) == idx = Len(xs)

\* first pass, one file: if (!sourceFile) continue; this.collectReexports(...)
CollectPass ==
  /\ passPc = "collect"
  /\ ~LoopDone(passIdx.collect, program)
  /\ LET file == program[passIdx.collect + 1]
     IN  passMap' = IF file.present
                    THEN CollectDecls(passMap, file.moduleId, file.exports)
                    ELSE passMap
  /\ passIdx' = [passIdx EXCEPT !.collect = @ + 1]
  /\ UNCHANGED <<program, passPc, passResolved, results, symbolToNodeId,
                 declarationToNodeId, resultsWithCallEdges, earlierVars, restVars, callVars, watchVars>>

\* const resolvedReexportMap = this.resolveReexportChains(reexportMap);
\* const results = []; symbolToNodeId = new Map(); declarationToNodeId = new Map()
ResolvePass ==
  /\ passPc = "collect"
  /\ LoopDone(passIdx.collect, program)
  /\ passResolved' = <<ResolveReexportChains(passMap)>>
  /\ passPc' = "extract"
  /\ UNCHANGED <<program, passIdx, passMap, results, symbolToNodeId,
                 declarationToNodeId, resultsWithCallEdges, earlierVars, restVars, callVars, watchVars>>

\* second pass, one file: if (!sourceFile) continue;
\* results.push(this.parseSourceFile(...))
ExtractPass ==
  /\ passPc = "extract"
  /\ ~LoopDone(passIdx.extract, program)
  /\ LET file   == program[passIdx.extract + 1]
         out    == ParseSourceFile(file, passResolved[1])
         tables == RegisterSymbols([symbolToNodeId |-> symbolToNodeId,
                                    declarationToNodeId |-> declarationToNodeId],
                                   out.registered)
     IN  IF file.present
         THEN /\ results' = Append(results, [filePath |-> out.filePath,
                                             nodes |-> out.nodes, edges |-> out.edges])
              /\ symbolToNodeId' = tables.symbolToNodeId
              /\ declarationToNodeId' = tables.declarationToNodeId
         ELSE UNCHANGED <<results, symbolToNodeId, declarationToNodeId>>
  /\ passIdx' = [passIdx EXCEPT !.extract = @ + 1]
  /\ UNCHANGED <<program, passPc, passMap, passResolved, resultsWithCallEdges,
                 earlierVars, restVars, callVars, watchVars>>

\* const resultsWithCallEdges = [];
BeginCallsPass ==
  /\ passPc = "extract"
  /\ LoopDone(passIdx.extract, program)
  /\ passPc' = "calls"
  /\ resultsWithCallEdges' = <<>>
  /\ UNCHANGED <<program, passIdx, passMap, passResolved, results, symbolToNodeId,
                 declarationToNodeId, earlierVars, restVars, callVars, watchVars>>

\* program.getSourceFile(result.filePath)
GetSourceFile(files, filePath) ==
  LET found == {i \in 1..Len(files) : files[i].moduleId = filePath /\ files[i].present}
  IN  IF found = {} THEN <<>> ELSE <<files[CHOOSE i \in found : TRUE]>>

\* third pass, one result: resultsWithCallEdges.push({...result,
\*   edges: [...result.edges, ...callEdges]})
CallsPass ==
  /\ passPc = "calls"
  /\ ~LoopDone(passIdx.calls, results)
  /\ LET result == results[passIdx.calls + 1]
         src    == GetSourceFile(program, result.filePath)
     IN  resultsWithCallEdges' =
           Append(resultsWithCallEdges,
                  IF src = <<>> THEN result
                  ELSE [result EXCEPT
                          !.edges = @ \o CollectCallEdges(src[1], symbolToNodeId,
                                                          declarationToNodeId)])
  /\ passIdx' = [passIdx EXCEPT !.calls = @ + 1]
  /\ UNCHANGED <<program, passPc, passMap, passResolved, results, symbolToNodeId,
                 declarationToNodeId, earlierVars, restVars, callVars, watchVars>>

\* return resultsWithCallEdges;
ReturnPass ==
  /\ passPc = "calls"
  /\ LoopDone(passIdx.calls, results)
  /\ passPc' = "done"
  /\ UNCHANGED <<program, passIdx, passMap, passResolved, results, symbolToNodeId,
                 declarationToNodeId, resultsWithCallEdges, earlierVars, restVars, callVars, watchVars>>

InitPasses ==
  /\ program \in Programs
  /\ passPc = "collect"
  /\ passIdx = [collect |-> 0, extract |-> 0, calls |-> 0]
  /\ passMap = <<>>
  /\ passResolved = <<>>
  /\ results = <<>>
  /\ symbolToNodeId = <<>>
  /\ declarationToNodeId = <<>>
  /\ resultsWithCallEdges = <<>>
  /\ IdleBuild
  /\ IdleReexport
  /\ IdleExtract
  /\ IdleCalls
  /\ IdleWatch
  /\ IdleRest

NextPasses ==
  \/ CollectPass
  \/ ResolvePass
  \/ ExtractPass
  \/ BeginCallsPass
  \/ CallsPass
  \/ ReturnPass

SpecPasses == InitPasses /\ [][NextPasses]_vars

\* ---- what the claim speaks of ----
PresentFiles == SelectSeq(program, LAMBDA f : f.present)

\* the re-exports of every file of the program
RECURSIVE AllReexports(_, _)
AllReexports(map, files) ==
  IF files = <<>> THEN map
  ELSE AllReexports(CollectDecls(map, Head(files).moduleId, Head(files).exports),
                    Tail(files))

\* the ids of the declarations of every file of the program
RegisteredIds(f) ==
  LET regs == ParseSourceFile(f, <<>>).registered
  IN  {regs[i].nodeId : i \in 1..Len(regs)}

DeclaredIds == UNION {RegisteredIds(f) : f \in Range(PresentFiles)}

ExtractionStarted == passIdx.extract > 0 \/ results # <<>>

CallResolutionStarted == passIdx.calls > 0 \/ resultsWithCallEdges # <<>>

\* C13: no file is extracted before the re-exports of every file are
\* collected and the chains collapsed, and no file's call edges are resolved
\* before every file is extracted and its declarations registered.
C13_PassesInOrder ==
  /\ ExtractionStarted =>
       /\ passIdx.collect = Len(program)
       /\ passMap = AllReexports(<<>>, PresentFiles)
       /\ passResolved = <<ResolveReexportChains(AllReexports(<<>>, PresentFiles))>>
  /\ CallResolutionStarted =>
       /\ passIdx.extract = Len(program)
       /\ Len(results) = Len(PresentFiles)
       /\ {e.value : e \in Range(declarationToNodeId)} = DeclaredIds

\* a program of two files whose first file imports through a re-export of
\* the second and uses a class the second declares
C13_Witness ==
  /\ passPc = "done"
  /\ Len(program) = 2
  /\ passMap # <<>>
  /\ \E e \in Range(resultsWithCallEdges[1].edges) :
       /\ e.type = "call"
       /\ e.target \in {n.id : n \in Range(results[2].nodes)}
  /\ \E e \in Range(resultsWithCallEdges[1].edges) :
       e.type = "import" /\ e.target = SymbolId("c", "f")

(***************************************************************************)
(* cli/index.ts main() in watch mode with web/server startServer: the      *)
(* watcher callback and its debounce timer, reanalyze(), updateGraph and   *)
(* the request handlers for /api/graph, /api/events and POST /api/layout.  *)
(*                                                                         *)
(* Node runs one callback at a time: while reanalyze() runs no other       *)
(* callback starts, and a timer that is due runs before the callbacks of   *)
(* events that arrive after it became due.                                 *)
(***************************************************************************)
MaxChanges == 3     \* watcher events delivered
TickMs     == 100   \* the step in which time passes
DebounceMs == 300   \* setTimeout(reanalyze, 300)

Clients == {"c1", "c2"}   \* the connections to /api/events

\* the graph analyzeProject.execute builds from the project as it is on disk
AnalysisOf(d) == [nodes |-> d, edges |-> d]

InitialGraph == AnalysisOf(0)

\* ---- the watcher callback ----
\* a file name as its segments: <<"a", ".d", ".ts">> is a.d.ts
Filenames ==
  {<<"a", ".ts">>, <<"b", ".tsx">>, <<"a", ".d", ".ts">>, <<"a", ".js">>, <<>>}

EndsWith(filename, suffix) ==
  /\ Len(filename) >= Len(suffix)
  /\ SubSeq(filename, Len(filename) - Len(suffix) + 1, Len(filename)) = suffix

\* filename && (filename.endsWith('.ts') || filename.endsWith('.tsx')) &&
\* !filename.endsWith('.d.ts')     (<<>> is a null filename)
IsWatchedSource(filename) ==
  /\ filename # <<>>
  /\ EndsWith(filename, <<".ts">>) \/ EndsWith(filename, <<".tsx">>)
  /\ ~EndsWith(filename, <<".d", ".ts">>)

\* if (debounceTimer) clearTimeout(debounceTimer);
ClearTimeoutNever(pending, timer) == pending

ClearTimeout(pending, timer) == {t \in pending : t.id # timer}

\* setTimeout(reanalyze, 300)
SetTimeout(pending, id) == pending \cup {[id |-> id, remaining |-> DebounceMs]}

Due == {t \in timers : t.remaining = 0}

\* no callback is running
EventLoopIdleAlways(pc) == TRUE

EventLoopIdle(pc) == pc = "idle"

\* the callbacks of new events start when nothing runs and no timer is due
Ready == process = "running" /\ EventLoopIdle(reanalyzePc) /\ Due = {}

\* watch(options.rootDir, { recursive: true }, (eventType, filename) => ...)
WatchEvent ==
  /\ Ready
  /\ changes < MaxChanges
  /\ changes' = changes + 1
  /\ \E filename \in Filenames :
       IF IsWatchedSource(filename)
       THEN /\ timers' = SetTimeout(IF debounceTimer # 0
                                    THEN ClearTimeout(timers, debounceTimer)
                                    ELSE timers,
                                    changes + 1)
            /\ debounceTimer' = changes + 1
            /\ disk' = disk + 1
            /\ elapsed' = 0
            /\ bursts' = IF timers = {} THEN bursts + 1 ELSE bursts
       ELSE UNCHANGED <<timers, debounceTimer, disk, elapsed, bursts>>
  /\ UNCHANGED <<process, targetPath, mainGraph, currentGraph, sseClients,
                 link, written, reanalyzePc, notifyIdx, layout, fetched,
                 outcomes, inProgress, writeFailed, analyses, joinedAt,
                 leftAt, earlierVars, restVars, callVars, passVars>>

Min(a, b) == IF a < b THEN a ELSE b
Max(a, b) == IF a > b THEN a ELSE b

\* time passes (while nothing runs, only until the next timer is due)
Tick ==
  /\ process = "running"
  /\ EventLoopIdle(reanalyzePc) => Due = {}
  /\ elapsed < DebounceMs \/ \E t \in timers : t.remaining > 0
  /\ timers' = {[id |-> t.id, remaining |-> Max(t.remaining - TickMs, 0)] : t \in timers}
  /\ elapsed' = Min(elapsed + TickMs, DebounceMs)
  /\ UNCHANGED <<process, targetPath, disk, mainGraph, currentGraph,
                 sseClients, link, written, debounceTimer, changes,
                 reanalyzePc, notifyIdx, layout, fetched, bursts, outcomes,
                 inProgress, writeFailed, analyses, joinedAt, leftAt,
                 earlierVars, restVars, callVars, passVars>>

\* ---- reanalyze() ----
\* the timer fires: console.log('File change detected, re-analyzing...'); try {
ReanalyzeBegin ==
  /\ process = "running"
  /\ EventLoopIdle(reanalyzePc)
  /\ \E t \in Due : timers' = timers \ {t}
  /\ reanalyzePc' = "analyzing"
  /\ inProgress' = inProgress + 1
  /\ UNCHANGED <<process, targetPath, disk, mainGraph, currentGraph,
                 sseClients, link, written, debounceTimer, changes,
                 notifyIdx, layout, fetched, elapsed, bursts, outcomes,
                 writeFailed, analyses, joinedAt, leftAt, earlierVars, restVars,
                 callVars, passVars>>

\* updateGraph: currentGraph = graph; (what the server holds: the published
\* graph, and the layout file it reads and writes)
UpdateGraphResetsLayout(server, g) == [currentGraph |-> g, layout |-> None]

UpdateGraphNotifiesOnly(server, g) == server

UpdateGraph(server, g) == [server EXCEPT !.currentGraph = g]

\* graph = analyzeProject.execute(analyzeOptions); server.updateGraph(graph)
ExecuteReturns ==
  /\ reanalyzePc = "analyzing"
  /\ mainGraph' = AnalysisOf(disk)
  /\ analyses' = analyses \cup {AnalysisOf(disk)}
  /\ LET server == UpdateGraph([currentGraph |-> currentGraph, layout |-> layout],
                               AnalysisOf(disk))
     IN  currentGraph' = server.currentGraph /\ layout' = server.layout
  /\ notifyIdx' = 1
  /\ writeFailed' = {}
  /\ reanalyzePc' = "notifying"
  /\ UNCHANGED <<process, targetPath, disk, sseClients, link, written,
                 debounceTimer, timers, changes, fetched, elapsed,
                 bursts, outcomes, inProgress, joinedAt, leftAt, earlierVars, restVars,
                 callVars, passVars>>

\* } catch (error) { console.error('Error during re-analysis:', error); }
OnReanalysisErrorUncaught(proc) == "exited"

OnReanalysisError(proc) == proc

\* analyzeProject.execute throws
ExecuteThrows ==
  /\ reanalyzePc = "analyzing"
  /\ process' = OnReanalysisError(process)
  /\ reanalyzePc' = "idle"
  /\ outcomes' = Append(outcomes, "failed")
  /\ inProgress' = inProgress - 1
  /\ UNCHANGED <<targetPath, disk, mainGraph, currentGraph, sseClients, link,
                 written, debounceTimer, timers, changes, notifyIdx, layout,
                 fetched, elapsed, bursts, writeFailed, analyses, joinedAt,
                 leftAt, earlierVars, restVars, callVars, passVars>>

\* client.write(...): the data is sent, or kept in memory while the
\* subscriber does not read ("stalled"), or dropped when the socket is gone
\* ("failed"); res.write reports a failure to its callback and does not throw
WriteOutcomes == {"sent", "stalled", "failed"}

WriteThrowsOnFailure(outcome) == outcome = "failed"

WriteThrows(outcome) == FALSE

\* res.write(chunk) on a connection
WriteTwice(w, client, event) == [w EXCEPT ![client] = Append(Append(@, event), event)]

WriteTo(w, client, event) == [w EXCEPT ![client] = Append(@, event)]

\* updateGraph: for (const client of sseClients) client.write('event: update...')
NotifyClient ==
  /\ reanalyzePc = "notifying"
  /\ notifyIdx <= Len(sseClients)
  /\ \E outcome \in WriteOutcomes :
       LET client == sseClients[notifyIdx]
       IN  IF WriteThrows(outcome)
           THEN \* the exception leaves updateGraph and reaches reanalyze's catch
                /\ process' = OnReanalysisError(process)
                /\ reanalyzePc' = "idle"
                /\ outcomes' = Append(outcomes, "failed")
                /\ inProgress' = inProgress - 1
                /\ writeFailed' = writeFailed \cup {client}
                /\ UNCHANGED <<written, notifyIdx>>
           ELSE /\ written' = WriteTo(written, client, "update")
                /\ notifyIdx' = notifyIdx + 1
                /\ writeFailed' = IF outcome = "sent" THEN writeFailed
                                  ELSE writeFailed \cup {client}
                /\ UNCHANGED <<process, reanalyzePc, outcomes, inProgress>>
  /\ UNCHANGED <<targetPath, disk, mainGraph, currentGraph, sseClients, link,
                 debounceTimer, timers, changes, layout, fetched, elapsed,
                 bursts, analyses, joinedAt, leftAt, earlierVars, restVars, callVars,
                 passVars>>

\* updateGraph returns; console.log(`Updated: ...`); }
UpdateDone ==
  /\ reanalyzePc = "notifying"
  /\ notifyIdx > Len(sseClients)
  /\ reanalyzePc' = "idle"
  /\ outcomes' = Append(outcomes, "ok")
  /\ inProgress' = inProgress - 1
  /\ UNCHANGED <<process, targetPath, disk, mainGraph, currentGraph,
                 sseClients, link, written, debounceTimer, timers, changes,
                 notifyIdx, layout, fetched, elapsed, bursts, writeFailed,
                 analyses, joinedAt, leftAt, earlierVars, restVars, callVars, passVars>>

\* updateGraph calls that have returned
UpdatesDone == Cardinality({i \in 1..Len(outcomes) : outcomes[i] = "ok"})

\* ---- the request handlers ----
\* GET /api/graph: res.end(JSON.stringify(currentGraph))
FetchGraph ==
  /\ Ready
  /\ fetched' = <<currentGraph>>
  /\ UNCHANGED <<process, targetPath, disk, mainGraph, currentGraph,
                 sseClients, link, written, debounceTimer, timers, changes,
                 reanalyzePc, notifyIdx, layout, elapsed, bursts, outcomes,
                 inProgress, writeFailed, analyses, joinedAt, leftAt,
                 earlierVars, restVars, callVars, passVars>>

\* connections are named in the order in which they are made
NextConnection(c) ==
  /\ link[c] = "none"
  /\ c = "c2" => link["c1"] # "none"

\* GET /api/events (options.watch): res.write('event: connected...');
\* sseClients.add(res); req.on('close', ...)
Subscribe ==
  /\ Ready
  /\ \E c \in Clients :
       /\ NextConnection(c)
       /\ written' = WriteTo(written, c, "connected")
       /\ sseClients' = Append(sseClients, c)
       /\ link' = [link EXCEPT ![c] = "open"]
       /\ joinedAt' = [joinedAt EXCEPT ![c] = UpdatesDone]
  /\ UNCHANGED <<process, targetPath, disk, mainGraph, currentGraph,
                 debounceTimer, timers, changes, reanalyzePc, notifyIdx,
                 layout, fetched, elapsed, bursts, outcomes, inProgress,
                 writeFailed, analyses, leftAt, earlierVars, restVars, callVars,
                 passVars>>

\* sseClients.delete(res)
DeleteNothing(clients, c) == clients

Delete(clients, c) == SelectSeq(clients, LAMBDA x : x # c)

\* req.on('close', () => { sseClients.delete(res); })
CloseConnection ==
  /\ Ready
  /\ \E c \in Clients :
       /\ link[c] = "open"
       /\ sseClients' = Delete(sseClients, c)
       /\ link' = [link EXCEPT ![c] = "closed"]
       /\ leftAt' = [leftAt EXCEPT ![c] = UpdatesDone]
  /\ UNCHANGED <<process, targetPath, disk, mainGraph, currentGraph, written,
                 debounceTimer, timers, changes, reanalyzePc, notifyIdx,
                 layout, fetched, elapsed, bursts, outcomes, inProgress,
                 writeFailed, analyses, joinedAt, earlierVars, restVars, callVars,
                 passVars>>

\* ---- POST /api/layout ----
LayoutBodies == {"{ }", "{p:1}"}

\* JSON.parse(body): <<the value>>, or <<>> where it throws
JsonParse(text) ==
  CASE text \in {"{ }", "{}"} -> <<"empty object">>
    [] text = "{\"positions\":{}}" -> <<"no positions">>
    [] text \in {"{\"positions\":{\"n\":1}}",
                 "{\n  \"positions\": {\n    \"n\": 1\n  }\n}"} -> <<"positions of n">>
    [] OTHER                  -> <<>>

\* JSON.stringify(layoutData, null, 2)
JsonStringify(value) ==
  CASE value = "empty object"  -> "{}"
    [] value = "positions of n" -> "{\n  \"positions\": {\n    \"n\": 1\n  }\n}"
    [] value = "no positions"   -> "{\n  \"positions\": {}\n}"

\* the handler with what fs.mkdir and fs.writeFile report; a failed writeFile
\* leaves the file as it was or cut short
SaveLayout ==
  /\ Ready
  /\ \E text \in LayoutBodies, mkdirErr \in BOOLEAN, writeErr \in BOOLEAN :
       IF targetPath = None \/ JsonParse(text) = <<>> \/ mkdirErr
       THEN UNCHANGED layout
       ELSE IF writeErr
            THEN layout' \in {layout, ""}
            ELSE layout' = JsonStringify(JsonParse(text)[1])
  /\ UNCHANGED <<process, targetPath, disk, mainGraph, currentGraph,
                 sseClients, link, written, debounceTimer, timers, changes,
                 reanalyzePc, notifyIdx, fetched, elapsed, bursts, outcomes,
                 inProgress, writeFailed, analyses, joinedAt, leftAt,
                 earlierVars, restVars, callVars, passVars>>

\* main(): the first analysis, startServer({ graph, watch: true, ... })
InitWatch ==
  /\ process = "running"
  /\ targetPath \in {None, "/project"}
  /\ disk = 0
  /\ mainGraph = InitialGraph
  /\ currentGraph = InitialGraph
  /\ sseClients = <<>>
  /\ link = [c \in Clients |-> "none"]
  /\ written = [c \in Clients |-> <<>>]
  /\ debounceTimer = 0
  /\ timers = {}
  /\ changes = 0
  /\ reanalyzePc = "idle"
  /\ notifyIdx = 0
  /\ layout = None
  /\ fetched = <<>>
  /\ elapsed = DebounceMs
  /\ bursts = 0
  /\ outcomes = <<>>
  /\ inProgress = 0
  /\ writeFailed = {}
  /\ analyses = {}
  /\ joinedAt = [c \in Clients |-> 0]
  /\ leftAt = [c \in Clients |-> 0]
  /\ IdleBuild
  /\ IdleReexport
  /\ IdleExtract
  /\ IdleCalls
  /\ IdlePasses
  /\ IdleRest

NextWatch ==
  \/ WatchEvent
  \/ Tick
  \/ ReanalyzeBegin
  \/ ExecuteReturns
  \/ ExecuteThrows
  \/ NotifyClient
  \/ UpdateDone
  \/ FetchGraph
  \/ Subscribe
  \/ CloseConnection
  \/ SaveLayout

SpecWatch == InitWatch /\ [][NextWatch]_vars

\* ---- what the claims speak of ----
Last(q) == q[Len(q)]

\* a step that ends a reanalyze() call, with the given outcome
Ends(outcome) == outcomes' = Append(outcomes, outcome)

\* a step that begins a reanalyze() call
Begins == inProgress' = inProgress + 1

UpdatesWritten(c) == Cardinality({i \in 1..Len(written[c]) : written[c][i] = "update"})

\* C14: the steps of a reanalysis that fails leave the published graph and
\* what was written to the subscribers as they were, the failure is caught
\* (the process runs on), and after it the server answers a graph fetch and
\* the watcher callback still runs on the next change event.
C14_FailedReanalysisKeepsGraph ==
  /\ [][(Begins \/ Ends("failed")) =>
          /\ currentGraph' = currentGraph
          /\ written' = written
          /\ sseClients' = sseClients]_vars
  /\ [][Ends("failed") => process' = "running" /\ reanalyzePc' = "idle"]_vars
  /\ []((/\ outcomes # <<>> /\ Last(outcomes) = "failed"
          /\ reanalyzePc = "idle" /\ Due = {}) =>
          /\ ENABLED FetchGraph
          /\ changes < MaxChanges => ENABLED WatchEvent)

\* a reanalysis failed, a later change event led to one that succeeded, and
\* a fetch returned its graph
C14_Witness ==
  /\ outcomes = <<"failed", "ok">>
  /\ currentGraph # InitialGraph
  /\ fetched = <<currentGraph>>

\* the place of a subscriber in the iteration order of sseClients
PlaceOf(c) == CHOOSE i \in 1..Len(sseClients) : sseClients[i] = c

\* the subscriber has been written to by the updateGraph call that is running
NotifiedNow(c) ==
  /\ reanalyzePc = "notifying"
  /\ c \in Range(sseClients)
  /\ PlaceOf(c) < notifyIdx

\* the update events a subscriber that joined before `joined` updateGraph
\* calls has been sent when `done` calls have returned
UpdatesDue(c, joined, done) == done - joined + (IF NotifiedNow(c) THEN 1 ELSE 0)

\* C15: a connection is written 'connected' first and only update events
\* after it, and a connected subscriber has been written exactly one update
\* event for each updateGraph call made since it connected.
C15_OneUpdatePerReanalysis ==
  \A c \in Clients :
    /\ link[c] = "none" => written[c] = <<>>
    /\ link[c] # "none" =>
         /\ written[c] # <<>>
         /\ written[c][1] = "connected"
         /\ \A i \in 2..Len(written[c]) : written[c][i] = "update"
    /\ link[c] = "open" =>
         UpdatesWritten(c) = UpdatesDue(c, joinedAt[c], UpdatesDone)

\* two updateGraph calls have returned; the first subscriber was connected
\* for both, the second for the later one only
C15_Witness ==
  /\ reanalyzePc = "idle"
  /\ UpdatesDone = 2
  /\ link = [c \in Clients |-> "open"]
  /\ written["c1"] = <<"connected", "update", "update">>
  /\ written["c2"] = <<"connected", "update">>

\* C16: a subscriber whose connection has closed is not in sseClients and
\* has been written only the updates of the updateGraph calls made while it
\* was connected; no step writes to a closed connection; every subscriber
\* still connected is in sseClients and has been written every update since
\* it connected.
C16_ClosedSubscriberRemoved ==
  /\ [](\A c \in Clients :
          /\ link[c] = "closed" =>
               /\ c \notin Range(sseClients)
               /\ UpdatesWritten(c) = leftAt[c] - joinedAt[c]
          /\ link[c] = "open" =>
               /\ c \in Range(sseClients)
               /\ UpdatesWritten(c) = UpdatesDue(c, joinedAt[c], UpdatesDone))
  /\ [][\A c \in Clients : written'[c] # written[c] => link[c] # "closed"]_vars

\* the first subscriber left before an updateGraph call which notified the
\* second one
C16_Witness ==
  /\ link["c1"] = "closed"
  /\ link["c2"] = "open"
  /\ reanalyzePc = "idle"
  /\ UpdatesDone > leftAt["c1"]
  /\ written["c1"] = <<"connected">>
  /\ written["c2"] = <<"connected", "update">>

C18_Debounce ==
  /\ [](/\ Cardinality(timers) <= 1
        /\ bursts = Len(outcomes) + inProgress + Cardinality(timers))
  /\ [][Begins => elapsed >= DebounceMs]_vars
  /\ [][disk' # disk =>
          timers' = {[id |-> debounceTimer', remaining |-> DebounceMs]}]_vars

\* three source-file events made one burst, each arriving while the timer of
\* the one before was pending, and the one reanalysis of the burst has run
C18_Witness ==
  /\ disk = 3
  /\ bursts = 1
  /\ Len(outcomes) = 1
  /\ timers = {}
  /\ reanalyzePc = "idle"

\* C19: currentGraph is assigned only by the step in which an analysis that
\* has run to completion hands over its result, whole; the published graph
\* and the graph a fetch returned are the initial graph or the result of a
\* completed analysis; and no two reanalyses are in progress together.
C19_AtomicSwap ==
  /\ [](/\ inProgress <= 1
        /\ currentGraph \in {InitialGraph} \cup analyses
        /\ \A i \in 1..Len(fetched) : fetched[i] \in {InitialGraph} \cup analyses)
  /\ [][currentGraph' # currentGraph =>
          /\ reanalyzePc = "analyzing"
          /\ currentGraph' = AnalysisOf(disk)
          /\ currentGraph' \in analyses']_vars

\* a fetch returned the result of a reanalysis, the files have changed since
\* and the next reanalysis is running
C19_Witness ==
  /\ fetched # <<>>
  /\ fetched[1] # InitialGraph
  /\ fetched[1] = currentGraph
  /\ fetched[1] # AnalysisOf(disk)
  /\ inProgress = 1

\* C20: the steps of a reanalysis, updateGraph among them, leave the layout
\* file as it is, and a step that writes the layout file leaves the
\* published graph as it is.
C20_LayoutApartFromGraph ==
  /\ [][(reanalyzePc # "idle" \/ reanalyzePc' # "idle" \/ currentGraph' # currentGraph)
          => layout' = layout]_vars
  /\ [][layout' # layout =>
          currentGraph' = currentGraph /\ mainGraph' = mainGraph]_vars

\* a layout was saved and an updateGraph call made after it is notifying
C20_Witness ==
  /\ layout = "{}"
  /\ reanalyzePc = "notifying"
  /\ currentGraph # InitialGraph

(***************************************************************************)
(* web/server startServer: GET and POST /api/layout, with the options the  *)
(* caller of startServer passed.                                           *)
(***************************************************************************)
MaxRequests == 3   \* /api/layout requests handled

\* options.key, undefined when the object has no such key
OptionOf(options, key) == IF key \in DOMAIN options THEN options[key] ELSE None

\* main(): startServer({ graph, port: options.port, watch: options.watch, ... })
MainStartServerOptions == [graph |-> InitialGraph, port |-> 3000, watch |-> FALSE]

\* what another caller of startServer may pass
LibraryStartServerOptions == [graph |-> InitialGraph, targetPath |-> "/project"]

\* JSON.stringify(value)
JsonStringifyCompact(value) ==
  CASE value = "empty object"  -> "{}"
    [] value = "positions of n" -> "{\"positions\":{\"n\":1}}"
    [] value = "no positions"   -> "{\"positions\":{}}"

\* the request bodies: the texts of LayoutBodies, a position map, nothing
Payloads == LayoutBodies \cup {"{\"positions\":{\"n\":1}}", ""}

\* res.writeHead(status, ...); res.end(body)
Respond(status, body) == <<[status |-> status, body |-> body]>>

ErrorBody(message) == "{\"error\":\"" \o message \o "\"}"

\* GET /api/layout, with what fs.readFile reports
GetLayoutResponse(path, file, readErr) ==
  IF path = None THEN Respond(400, ErrorBody("Target path not configured"))
  ELSE IF file = None THEN Respond(200, JsonStringifyCompact("no positions"))
  ELSE IF readErr THEN Respond(500, ErrorBody("Failed to read layout file"))
  ELSE IF JsonParse(file) = <<>>
       THEN Respond(500, ErrorBody("Invalid layout file format"))
       ELSE Respond(200, JsonStringifyCompact(JsonParse(file)[1]))

GetLayout ==
  /\ process = "running"
  /\ requests < MaxRequests
  /\ requests' = requests + 1
  /\ request' = <<[method |-> "GET", body |-> ""]>>
  /\ \E readErr \in BOOLEAN :
       response' = GetLayoutResponse(targetPath, layout, readErr)
  /\ UNCHANGED <<process, targetPath, layout, persisted, caller>>

\* the layout file after JSON.parse(body) threw: control is in the catch
\* block, fs.mkdir and fs.writeFile were not called
WriteBodyOnInvalidBody(file, text) == text

KeepFileOnInvalidBody(file, text) == file

\* POST /api/layout, with what fs.mkdir and fs.writeFile report; a failed
\* writeFile leaves the file as it was or cut short
PostLayout ==
  /\ process = "running"
  /\ requests < MaxRequests
  /\ requests' = requests + 1
  /\ \E text \in Payloads, mkdirErr \in BOOLEAN, writeErr \in BOOLEAN :
       /\ request' = <<[method |-> "POST", body |-> text]>>
       /\ IF targetPath = None
          THEN /\ response' = Respond(400, ErrorBody("Target path not configured"))
               /\ UNCHANGED <<layout, persisted>>
          ELSE IF JsonParse(text) = <<>>
          THEN /\ response' = Respond(400, ErrorBody("Invalid JSON body"))
               /\ layout' = KeepFileOnInvalidBody(layout, text)
               /\ UNCHANGED persisted
          ELSE IF mkdirErr
          THEN /\ response' = Respond(500, ErrorBody("Failed to create .chizuts directory"))
               /\ UNCHANGED <<layout, persisted>>
          ELSE IF writeErr
          THEN /\ response' = Respond(500, ErrorBody("Failed to write layout file"))
               /\ layout' \in {layout, ""}
               /\ UNCHANGED persisted
          ELSE /\ response' = Respond(200, "{\"success\":true,\"path\":\"/project/.chizuts/layout.json\"}")
               /\ layout' = JsonStringify(JsonParse(text)[1])
               /\ persisted' = JsonParse(text)
  /\ UNCHANGED <<process, targetPath, caller>>

\* the variables of the watch mode the layout handlers leave alone
watchOnlyVars == <<disk, mainGraph, currentGraph, sseClients, link, written,
                   debounceTimer, timers, changes, reanalyzePc, notifyIdx,
                   fetched, elapsed, bursts, outcomes, inProgress, writeFailed,
                   analyses, joinedAt, leftAt>>

\* startServer has returned: main() called it, or another program did
InitLayout ==
  /\ caller \in {"main", "library"}
  /\ targetPath = IF caller = "main"
                  THEN OptionOf(MainStartServerOptions, "targetPath")
                  ELSE OptionOf(LibraryStartServerOptions, "targetPath")
  /\ process = "running"
  /\ layout \in {None, "{}"}
  /\ request = <<>>
  /\ response = <<>>
  /\ requests = 0
  /\ persisted = <<>>
  /\ disk = 0
  /\ mainGraph = InitialGraph
  /\ currentGraph = InitialGraph
  /\ sseClients = <<>>
  /\ link = [c \in Clients |-> "none"]
  /\ written = [c \in Clients |-> <<>>]
  /\ debounceTimer = 0
  /\ timers = {}
  /\ changes = 0
  /\ reanalyzePc = "idle"
  /\ notifyIdx = 0
  /\ fetched = <<>>
  /\ elapsed = DebounceMs
  /\ bursts = 0
  /\ outcomes = <<>>
  /\ inProgress = 0
  /\ writeFailed = {}
  /\ analyses = {}
  /\ joinedAt = [c \in Clients |-> 0]
  /\ leftAt = [c \in Clients |-> 0]
  /\ IdleBuild
  /\ IdleReexport
  /\ IdleExtract
  /\ IdleCalls
  /\ IdlePasses
  /\ IdleEnv
  /\ IdleFind
  /\ IdleIds

NextLayout ==
  \/ GetLayout /\ UNCHANGED <<watchOnlyVars, earlierVars, callVars, passVars, envVars, findVars, idVars>>
  \/ PostLayout /\ UNCHANGED <<watchOnlyVars, earlierVars, callVars, passVars, envVars, findVars, idVars>>

SpecLayout == InitLayout /\ [][NextLayout]_vars

\* a step that handles a request of the given method
Handles(method) == requests' = requests + 1 /\ request'[1].method = method

\* C21: the response to a layout fetch, on the server main() started, is a
\* 200 whose body is the position map of the last successful save, or the
\* empty position map when there was none.
C21_FetchReturnsPersistedLayout ==
  (caller = "main" /\ request # <<>> /\ request[1].method = "GET") =>
    /\ response[1].status = 200
    /\ JsonParse(response[1].body) =
         IF persisted = <<>> THEN <<"no positions">> ELSE persisted

\* C22: a save whose body is not valid JSON is answered 4xx, leaves the
\* layout file as it was and the process running; after it the handlers of
\* both layout requests still run.
C22_MalformedSaveRejected ==
  /\ [][Handles("POST") /\ JsonParse(request'[1].body) = <<>> =>
          /\ response'[1].status \in 400..499
          /\ layout' = layout
          /\ process' = "running"]_vars
  /\ []((/\ request # <<>>
         /\ request[1].method = "POST"
         /\ JsonParse(request[1].body) = <<>>
         /\ requests < MaxRequests) =>
          ENABLED GetLayout /\ ENABLED PostLayout)

\* a position map was saved, a malformed save followed and was answered
\* 400, and the file still holds the saved map
C22_Witness ==
  /\ caller = "library"
  /\ persisted = <<"positions of n">>
  /\ request = <<[method |-> "POST", body |-> "{p:1}"]>>
  /\ response[1].status = 400
  /\ layout = JsonStringify("positions of n")

(***************************************************************************)
(* cli/index.ts: parseArgs (the port flag) and applyEnvOverrides.  A text  *)
(* is the sequence of its characters; an option name is one element.       *)
(***************************************************************************)
MaxArgs == 2   \* words on the command line

DefaultPort == 3000
MaxPort == 65535

DigitChars == <<"0", "1", "2", "3", "4", "5", "6", "7", "8", "9">>

IsDigit(ch) == \E d \in 1..10 : DigitChars[d] = ch

DigitOf(ch) == (CHOOSE d \in 1..10 : DigitChars[d] = ch) - 1

\* the number of leading digits of text from position i on
RECURSIVE DigitRun(_, _)
DigitRun(text, i) ==
  IF i <= Len(text) /\ IsDigit(text[i]) THEN 1 + DigitRun(text, i + 1) ELSE 0

RECURSIVE DecimalValue(_)
DecimalValue(digits) ==
  IF digits = <<>> THEN 0
  ELSE 10 * DecimalValue(SubSeq(digits, 1, Len(digits) - 1)) + DigitOf(digits[Len(digits)])

NaN == [nan |-> TRUE, value |-> 0]

\* parseInt(text, 10): leading blanks, a sign, then the longest run of digits;
\* what follows the digits is ignored; NaN when there is no digit
RECURSIVE ParseInt(_)
ParseInt(text) ==
  IF text # <<>> /\ text[1] = " " THEN ParseInt(Tail(text))
  ELSE LET signed == text # <<>> /\ text[1] \in {"-", "+"}
           from   == IF signed THEN 2 ELSE 1
           run    == DigitRun(text, from)
           abs    == DecimalValue(SubSeq(text, from, from + run - 1))
       IN  IF run = 0 THEN NaN
           ELSE [nan |-> FALSE, value |-> IF signed /\ text[1] = "-" THEN 0 - abs ELSE abs]

\* the texts given as a port, on the command line or in PORT
PortTexts ==
  {<<>>, <<"0">>, <<"1">>, <<"3", "0", "0", "0">>, <<"8", "0", "8", "0">>,
   <<"6", "5", "5", "3", "5">>, <<"6", "5", "5", "3", "6">>,
   <<"8", "0", "8", "0", "x">>, <<"x">>, <<"-", "1">>, <<" ", "8", "0">>}

PortFlags == {<<"--port">>, <<"-p">>}

Words == PortFlags \cup {<<"--watch">>, <<"--bogus">>, <<".", "/", "s", "r", "c">>}
           \cup {t \in PortTexts : t # <<>>}

\* arg.startsWith('-')
StartsWithDash(word) == word[1] \in {"-", "--bogus"} \cup {f[1] : f \in PortFlags}

DefaultOptions == [rootDir |-> <<"cwd">>, port |-> DefaultPort, watch |-> FALSE]

CliError == [threw |-> TRUE, options |-> DefaultOptions]

\* the while loop of parseArgs from word i on
RECURSIVE ParseArgsFrom(_, _, _)
ParseArgsFrom(args, i, options) ==
  IF i > Len(args) THEN [threw |-> FALSE, options |-> options]
  ELSE LET arg == args[i]
       IN  CASE arg = <<"--watch">> ->
                  ParseArgsFrom(args, i + 1, [options EXCEPT !.watch = TRUE])
             [] arg \in PortFlags ->
                  IF i + 1 > Len(args) THEN CliError
                  ELSE LET port == ParseInt(args[i + 1])
                       IN  IF port.nan \/ port.value < 1 \/ port.value > MaxPort
                           THEN CliError
                           ELSE ParseArgsFrom(args, i + 2,
                                              [options EXCEPT !.port = port.value])
             [] OTHER ->
                  IF StartsWithDash(arg) THEN CliError
                  ELSE ParseArgsFrom(args, i + 1, [options EXCEPT !.rootDir = arg])

ParseArgs(args) == ParseArgsFrom(args, 1, DefaultOptions)

\* options.port === 3000
PortIsDefault(options) == options.port = DefaultPort

\* applyEnvOverrides(options) with process.env['PORT'] = env[1] (if any)
ApplyEnvOverrides(options, env) ==
  IF env # <<>> /\ PortIsDefault(options)
  THEN LET port == ParseInt(env[1])
       IN  IF ~port.nan /\ port.value >= 1 /\ port.value <= MaxPort
           THEN [options EXCEPT !.port = port.value]
           ELSE options
  ELSE options

\* const parsedOptions = parseArgs(args)
RunParseArgs ==
  /\ envPc = "args"
  /\ LET r == ParseArgs(argv)
     IN  IF r.threw
         THEN envPc' = "CliError" /\ UNCHANGED parsedOptions
         ELSE envPc' = "env" /\ parsedOptions' = <<r.options>>
  /\ UNCHANGED <<argv, envPort, cliOptions>>

\* const options = applyEnvOverrides(parsedOptions)
RunApplyEnvOverrides ==
  /\ envPc = "env"
  /\ cliOptions' = <<ApplyEnvOverrides(parsedOptions[1], envPort)>>
  /\ envPc' = "done"
  /\ UNCHANGED <<argv, envPort, parsedOptions>>

Argvs == SeqsUpTo(Words, MaxArgs)

InitEnv ==
  /\ argv \in Argvs
  /\ envPort \in {<<>>} \cup {<<t>> : t \in PortTexts}
  /\ parsedOptions = <<>>
  /\ cliOptions = <<>>
  /\ envPc = "args"
  /\ IdleBuild
  /\ IdleReexport
  /\ IdleExtract
  /\ IdleCalls
  /\ IdlePasses
  /\ IdleWatch
  /\ IdleLayout
  /\ IdleFind
  /\ IdleIds

NextEnv ==
  \/ RunParseArgs /\ UNCHANGED <<earlierVars, callVars, passVars, watchVars, layoutVars, findVars, idVars>>
  \/ RunApplyEnvOverrides /\ UNCHANGED <<earlierVars, callVars, passVars, watchVars, layoutVars, findVars, idVars>>

SpecEnv == InitEnv /\ [][NextEnv]_vars

\* a port flag was given on the command line
PortFlagGiven == \E i \in 1..Len(argv) : argv[i] \in PortFlags

\* the text is a port number from 1 to 65535
IsPortText(text) ==
  /\ text # <<>>
  /\ \A i \in 1..Len(text) : IsDigit(text[i])
  /\ DecimalValue(text) \in 1..MaxPort

\* C23: after applyEnvOverrides, the port is the one parseArgs returned when
\* a port flag was given; without a flag it is the value of PORT when PORT
\* is a valid port, and the default when PORT is not set or not valid.
C23_PortEnvIsOnlyDefault ==
  envPc = "done" =>
    IF PortFlagGiven THEN cliOptions[1].port = parsedOptions[1].port
    ELSE IF envPort # <<>> /\ IsPortText(envPort[1])
         THEN cliOptions[1].port = DecimalValue(envPort[1])
         ELSE cliOptions[1].port = DefaultPort

(***************************************************************************)
(* infrastructure/file-system/file-reader.adapter.ts: findFiles.  A path   *)
(* is the sequence of its names, a name the sequence of its parts          *)
(* (<<"a", ".test", ".ts">> is a.test.ts); a pattern is a sequence of      *)
(* segments written the same way, with the parts "**" and "*".             *)
(***************************************************************************)
MaxTreeFiles == 2   \* files under the root directory

Name(parts) == parts

\* the files a project may hold
CandidateFiles ==
  {<<Name(<<"src">>), Name(<<"a", ".ts">>)>>,
   <<Name(<<"src">>), Name(<<"a", ".test", ".ts">>)>>,
   <<Name(<<"src">>), Name(<<"b", ".tsx">>)>>,
   <<Name(<<"src">>), Name(<<"c", ".d", ".ts">>)>>,
   <<Name(<<"src">>), Name(<<"r", ".js">>)>>,
   <<Name(<<"node_modules">>), Name(<<"m">>), Name(<<"i", ".ts">>)>>,
   <<Name(<<"dist">>), Name(<<"a", ".ts">>)>>,
   <<Name(<<"lib">>), Name(<<"dist", ".ts">>)>>,
   <<Name(<<"main", ".ts">>)>>}

NodeModulesPattern == <<Name(<<"**">>), Name(<<"node_modules">>), Name(<<"**">>)>>
DistPattern        == <<Name(<<"**">>), Name(<<"dist">>), Name(<<"**">>)>>
TestPattern        == <<Name(<<"**">>), Name(<<"*", ".test", ".ts">>)>>
SrcPattern         == <<Name(<<"src">>), Name(<<"**">>)>>

\* include / exclude as given: <<>> is undefined, <<list>> a list
PatternLists ==
  {<<>>, <<<<>>>>, <<<<TestPattern>>>>, <<<<NodeModulesPattern>>>>,
   <<<<SrcPattern>>>>, <<<<DistPattern, TestPattern>>>>}

\* text.includes(word), for a word that is one part
Includes(segments, word) ==
  \E i \in 1..Len(segments) : \E j \in 1..Len(segments[i]) : segments[i][j] = word

\* filePath.includes('/dist/'): a directory of the path is named dist
IncludesDistDirectory(fullPath) ==
  \E i \in 1..(Len(fullPath) - 1) : fullPath[i] = Name(<<"dist">>)

\* isExcluded(filePath, exclude)
IsExcluded(fullPath, exclude) ==
  \E k \in 1..Len(exclude) :
    \/ Includes(exclude[k], "node_modules") /\ Includes(fullPath, "node_modules")
    \/ Includes(exclude[k], "dist") /\ IncludesDistDirectory(fullPath)

\* isTypeScriptFile(fileName)
IsTypeScriptFile(fileName) ==
  /\ EndsWith(fileName, <<".ts">>) \/ EndsWith(fileName, <<".tsx">>)
  /\ ~EndsWith(fileName, <<".d", ".ts">>)

IsPrefix(dir, path) == Len(dir) <= Len(path) /\ SubSeq(path, 1, Len(dir)) = dir

\* fs.readdirSync(dir, { withFileTypes: true }): the names in dir
Entries(files, dir) ==
  {f[Len(dir) + 1] : f \in {g \in files : IsPrefix(dir, g) /\ Len(g) > Len(dir)}}

IsDirectory(files, path) == \E f \in files : IsPrefix(path, f) /\ Len(f) > Len(path)

\* walkDirectory(dir, files, exclude): the paths it pushes
RECURSIVE WalkDirectory(_, _, _)
WalkDirectory(files, dir, exclude) ==
  UNION {LET fullPath == Append(dir, name)
         IN  IF IsExcluded(fullPath, exclude) THEN {}
             ELSE IF IsDirectory(files, fullPath)
                  THEN WalkDirectory(files, fullPath, exclude)
                  ELSE IF IsTypeScriptFile(name) THEN {fullPath} ELSE {}
         : name \in Entries(files, dir)}

\* options?.exclude ?? ['**/node_modules/**', '**/dist/**']
ExcludeOrDefault(options) ==
  IF options.exclude # <<>> THEN options.exclude[1]
  ELSE <<NodeModulesPattern, DistPattern>>

\* findFiles(rootDir, options)
FindFilesIn(files, options) == WalkDirectory(files, <<>>, ExcludeOrDefault(options))

FindFiles ==
  /\ findPc = "call"
  /\ foundFiles' = FindFilesIn(tree, findOptions)
  /\ findPc' = "returned"
  /\ UNCHANGED <<tree, findOptions>>

Trees == {t \in SUBSET CandidateFiles : Cardinality(t) <= MaxTreeFiles}

InitFind ==
  /\ tree \in Trees
  /\ findOptions \in [include : PatternLists, exclude : PatternLists]
  /\ foundFiles = {}
  /\ findPc = "call"
  /\ IdleBuild
  /\ IdleReexport
  /\ IdleExtract
  /\ IdleCalls
  /\ IdlePasses
  /\ IdleWatch
  /\ IdleLayout
  /\ IdleEnv
  /\ IdleIds

NextFind ==
  FindFiles /\ UNCHANGED <<earlierVars, callVars, passVars, watchVars, layoutVars, envVars, idVars>>

SpecFind == InitFind /\ [][NextFind]_vars

\* a name matches a pattern segment: "*" stands for any beginning of the name
SegmentMatches(segment, name) ==
  IF segment[1] = "*" THEN EndsWith(name, Tail(segment)) /\ Len(name) >= Len(segment)
  ELSE segment = name

\* a path matches a glob pattern: "**" stands for any number of names
RECURSIVE GlobMatches(_, _)
GlobMatches(pattern, path) ==
  IF pattern = <<>> THEN path = <<>>
  ELSE IF pattern[1] = <<"**">>
       THEN \/ GlobMatches(Tail(pattern), path)
            \/ path # <<>> /\ GlobMatches(pattern, Tail(path))
       ELSE /\ path # <<>>
            /\ SegmentMatches(pattern[1], path[1])
            /\ GlobMatches(Tail(pattern), Tail(path))

MatchesSome(patterns, path) ==
  \E k \in 1..Len(patterns) : GlobMatches(patterns[k], path)

\* C24: every path findFiles returned is a .ts/.tsx file that is not a
\* .d.ts file, matches none of the exclude patterns that were given, and,
\* when include patterns were given, matches one of them.
C24_FindFilesHonoursFilters ==
  findPc = "returned" =>
    \A f \in foundFiles :
      /\ f \in tree
      /\ IsTypeScriptFile(f[Len(f)])
      /\ findOptions.exclude # <<>> => ~MatchesSome(findOptions.exclude[1], f)
      /\ (findOptions.include # <<>> /\ findOptions.include[1] # <<>>) =>
           MatchesSome(findOptions.include[1], f)

(***************************************************************************)
(* Statements about collectCallEdges, the re-export table, the symbol      *)
(* table and the edge sources.                                             *)
(***************************************************************************)
\* the id the i-th ancestor gives when it qualifies, None when it does not
QualifiedId(ancestors, i, moduleId) ==
  LET a      == ancestors[i]
      above  == IF i < Len(ancestors) THEN ancestors[i + 1] ELSE Ancestor(None, None)
  IN  CASE a.kind = "FunctionDeclaration" /\ a.name # None ->
             moduleId \o "#" \o a.name
        [] /\ a.kind \in {"ArrowFunction", "FunctionExpression"}
           /\ above.kind = "VariableDeclaration"
           /\ above.name # None ->
             moduleId \o "#" \o above.name
        [] /\ a.kind = "MethodDeclaration"
           /\ a.name # None
           /\ above.kind = "ClassDeclaration"
           /\ above.name # None ->
             moduleId \o "#" \o above.name \o "." \o a.name
        [] OTHER -> None

\* the id given by the nearest qualifying ancestor, the module id without one
NearestQualifying(ancestors, moduleId) ==
  LET qualifying == {i \in 1..Len(ancestors) : QualifiedId(ancestors, i, moduleId) # None}
  IN  IF qualifying = {} THEN moduleId
      ELSE QualifiedId(ancestors,
                       CHOOSE i \in qualifying : \A j \in qualifying : i <= j,
                       moduleId)

\* C25: the source of every call edge is the id given by the nearest
\* qualifying ancestor of the node that produced it (the module id when no
\* ancestor qualifies), and every use whose target differs from that id has
\* an edge from it.
C25_SourceIsNearestQualifyingAncestor ==
  /\ [][callEdges' # callEdges =>
          Last(callEdges').source =
            NearestQualifying(Parents(Last(callNodes')), callModule)]_vars
  /\ [](\A i \in Uses :
          LET sourceId == NearestQualifying(Parents(callNodes[i]), callModule)
          IN  sourceId # UseTarget(callNodes[i]) =>
                HasCallEdge(sourceId, UseTarget(callNodes[i])))

\* one use inside a block of a method of a class, one inside an anonymous
\* callback within a named function: both produced an edge
C25_Witness ==
  /\ Len(callNodes) = 2
  /\ Len(callEdges) = 2
  /\ callNodes[1].ancestors = <<Ancestor("Block", None), Ancestor("MethodDeclaration", "m"),
                                Ancestor("ClassDeclaration", "K")>>
  /\ callEdges[1].source = callModule \o "#K.m"
  /\ callNodes[2].ancestors = <<Ancestor("ArrowFunction", None), Ancestor("CallExpression", None),
                                Ancestor("FunctionDeclaration", "f")>>
  /\ callEdges[2].source = callModule \o "#f"

\* the chain of key k never leaves the keys of the table: it runs into a cycle
Unending(map, k) == MapHas(map, Terminal(map, k))

\* the hops after which the chain from k is, for the first time, at an id it
\* has been at before
FirstReturn(map, k) ==
  CHOOSE n \in 1..Len(map) :
    /\ \E m \in 0..(n - 1) : Follow(map, k, n) = Follow(map, k, m)
    /\ \A j \in 1..(n - 1) : \A m \in 0..(j - 1) : Follow(map, k, j) # Follow(map, k, m)

\* C26: the collapsed table has exactly the keys of the raw table, and a key
\* whose chain runs into a cycle is mapped to the first id of the chain that
\* had been visited before, which is a key of the raw table.
C26_CycleKeepsLastReached ==
  parsePc \in {"resolved", "imported"} =>
    /\ MapKeys(resolved) = MapKeys(reexportMap)
    /\ Len(resolved) = Len(reexportMap)
    /\ \A k \in MapKeys(reexportMap) :
         Unending(reexportMap, k) =>
           /\ MapGet(resolved, k) = Follow(reexportMap, k, FirstReturn(reexportMap, k))
           /\ MapHas(reexportMap, MapGet(resolved, k))

\* a table with a key outside a cycle whose chain leads into it, collapsed:
\* the key is mapped to a key of the cycle
C26_Witness ==
  /\ parsePc = "resolved"
  /\ \E k \in MapKeys(reexportMap) :
       /\ Unending(reexportMap, k)
       /\ MapGet(resolved, k) # k
       /\ MapGet(resolved, k) # MapGet(reexportMap, k)
       /\ MapHas(reexportMap, MapGet(resolved, k))

\* the ids parseSourceFile registered for call-edge resolution, and the ids
\* of the nodes it returned
RegisteredNodeIds ==
  {parsed[1].registered[i].nodeId : i \in 1..Len(parsed[1].registered)}

EmittedNodeIds == {parsed[1].nodes[i].id : i \in 1..Len(parsed[1].nodes)}

\* C27: every id registered for a declaration of the file is the id of a
\* node the file's extraction emitted, so that no declaration without a node
\* (a private or protected member, for one) is registered.
C27_RegisteredIdsHaveNodes ==
  Parsed => RegisteredNodeIds \subseteq EmittedNodeIds

\* buildGraph(parsedFiles, { rootDir }) on what parse() returned
PipelineGraph ==
  BuildGraph(resultsWithCallEdges, [rootDir |-> "/project", version |-> None])

\* C28: in the graph built from the result of parse(), the source of every
\* edge is the id of one of the graph's nodes.
C28_EdgeSourcesAreNodes ==
  passPc = "done" =>
    \A i \in 1..Len(PipelineGraph.edges) :
      \E j \in 1..Len(PipelineGraph.nodes) :
        PipelineGraph.nodes[j].id = PipelineGraph.edges[i].source

\* a step that writes an update event to connection c
WritesUpdate(c) == written'[c] # written[c] /\ Last(written'[c]) = "update"

\* C29: when an update event is written, currentGraph already is the graph
\* of the reanalysis that sends it; the published graph is only ever
\* replaced by the result of a later analysis; so a fetch answered after an
\* update event was written returns the result of the latest completed
\* analysis, never a graph that had been replaced.
C29_SwapBeforeNotify ==
  /\ [][\A c \in Clients : WritesUpdate(c) =>
          /\ currentGraph = AnalysisOf(disk)
          /\ currentGraph = mainGraph
          /\ currentGraph' = currentGraph]_vars
  /\ [][currentGraph' # currentGraph => currentGraph'.nodes > currentGraph.nodes]_vars
  /\ [][(fetched' # fetched /\ \E c \in Clients : UpdatesWritten(c) >= 1) =>
          /\ fetched'[1] = mainGraph
          /\ \A g \in analyses : g.nodes <= fetched'[1].nodes]_vars

\* a subscriber has been sent the update events of two reanalyses and the
\* fetch made after the second returned its graph
C29_Witness ==
  /\ written["c1"] = <<"connected", "update", "update">>
  /\ Cardinality(analyses) = 2
  /\ fetched = <<AnalysisOf(disk)>>
  /\ reanalyzePc = "idle"

(***************************************************************************)
(* typescript-parser.adapter.ts: createModuleId and resolveImportPath.  A  *)
(* path is the sequence of its names and a name the sequence of its parts, *)
(* as for findFiles; an id is the text.                                    *)
(***************************************************************************)
MaxDepth == 2   \* directories between rootDir and a source file

RootDir == <<Name(<<"p">>)>>   \* /p

\* the text of a name, and of a path with '/' between its names
RECURSIVE Concat(_)
Concat(parts) == IF parts = <<>> THEN "" ELSE Head(parts) \o Concat(Tail(parts))

RECURSIVE JoinPath(_)
JoinPath(path) ==
  IF path = <<>> THEN ""
  ELSE IF Len(path) = 1 THEN Concat(path[1])
       ELSE Concat(path[1]) \o "/" \o JoinPath(Tail(path))

StrippedExtensions == {".ts", ".tsx", ".js", ".jsx"}

\* .replace(/\.(ts|tsx|js|jsx)$/, '')
StripExtension(path) ==
  IF path = <<>> THEN path
  ELSE LET last == path[Len(path)]
       IN  IF last # <<>> /\ last[Len(last)] \in StrippedExtensions
           THEN [path EXCEPT ![Len(path)] = SubSeq(last, 1, Len(last) - 1)]
           ELSE path

\* .replace(/\/index$/, ''): the text ends with '/index'
StripIndex(path) ==
  IF Len(path) >= 2 /\ path[Len(path)] = Name(<<"index">>)
  THEN SubSeq(path, 1, Len(path) - 1)
  ELSE path

\* createModuleId(filePath); .replace(/\\/g, '/') is JoinPath, which puts '/'
\* between the names whatever the separator was
CreateModuleId(path) == JoinPath(StripIndex(StripExtension(path)))

\* path normalisation: '.' names dropped, '..' takes the name before it away
RECURSIVE Normalize(_, _)
Normalize(done, rest) ==
  IF rest = <<>> THEN done
  ELSE IF Head(rest) = Name(<<".">>) THEN Normalize(done, Tail(rest))
  ELSE IF Head(rest) = Name(<<"..">>)
       THEN Normalize(IF done = <<>> THEN done ELSE SubSeq(done, 1, Len(done) - 1),
                      Tail(rest))
       ELSE Normalize(Append(done, Head(rest)), Tail(rest))

\* path.dirname(p), path.resolve(dir, p), path.relative(from, to) on
\* absolute paths
Dirname(path) == SubSeq(path, 1, Len(path) - 1)

PathResolve(dir, path) == Normalize(<<>>, dir \o path)

CommonPrefix(a, b) ==
  CHOOSE k \in 0..Len(a) :
    /\ k <= Len(b)
    /\ SubSeq(a, 1, k) = SubSeq(b, 1, k)
    /\ \A j \in (k + 1)..Len(a) : j > Len(b) \/ SubSeq(a, 1, j) # SubSeq(b, 1, j)

PathRelative(from, to) ==
  LET k == CommonPrefix(from, to)
  IN  [i \in 1..(Len(from) - k) |-> Name(<<"..">>)] \o SubSeq(to, k + 1, Len(to))

\* importPath.startsWith('.') (no specifier of the model starts with '/')
IsRelativeSpecifier(specifier) == specifier[1] \in {Name(<<".">>), Name(<<"..">>)}

\* resolveImportPath(importPath, fromFile, rootDir)
ResolveImportPath(importPath, fromFile, rootDir) ==
  IF ~IsRelativeSpecifier(importPath)
  THEN <<Name(<<"node_modules">>)>> \o importPath
  ELSE PathRelative(rootDir, PathResolve(Dirname(fromFile), importPath))

\* the source files of the project, relative to rootDir
ProjectFiles ==
  {f \in {<<Name(<<"index", ".ts">>)>>,
          <<Name(<<"c", ".ts">>)>>,
          <<Name(<<"src">>), Name(<<"a", ".ts">>)>>,
          <<Name(<<"src">>), Name(<<"b", ".tsx">>)>>,
          <<Name(<<"src">>), Name(<<"index", ".ts">>)>>,
          <<Name(<<"src">>), Name(<<"util">>), Name(<<"index", ".tsx">>)>>,
          <<Name(<<"src">>), Name(<<"util">>), Name(<<"deep">>), Name(<<"d", ".ts">>)>>} :
     Len(f) <= MaxDepth + 1}

\* module specifiers: ., .., ./index, ./a, ./a.ts, ./a.js, ./b, ./util,
\* ./util/index, ./src, ./src/a, ./src/index.ts, ../c, ../index, react
Specifiers ==
  {<<Name(<<".">>)>>,
   <<Name(<<"..">>)>>,
   <<Name(<<".">>), Name(<<"index">>)>>,
   <<Name(<<".">>), Name(<<"a">>)>>,
   <<Name(<<".">>), Name(<<"a", ".ts">>)>>,
   <<Name(<<".">>), Name(<<"a", ".js">>)>>,
   <<Name(<<".">>), Name(<<"b">>)>>,
   <<Name(<<".">>), Name(<<"util">>)>>,
   <<Name(<<".">>), Name(<<"util">>), Name(<<"index">>)>>,
   <<Name(<<".">>), Name(<<"src">>)>>,
   <<Name(<<".">>), Name(<<"src">>), Name(<<"a">>)>>,
   <<Name(<<".">>), Name(<<"src">>), Name(<<"index", ".ts">>)>>,
   <<Name(<<"..">>), Name(<<"c">>)>>,
   <<Name(<<"..">>), Name(<<"index">>)>>,
   <<Name(<<"react">>)>>}

\* parseSourceFile: path.relative(rootDir, filePath); createModuleId(...);
\* the module node
CreateModuleNode ==
  /\ moduleNodeId = <<>>
  /\ moduleNodeId' = <<CreateModuleId(PathRelative(RootDir, RootDir \o idFile))>>
  /\ UNCHANGED <<idFile, idFrom, idSpecifier, specifierModuleId>>

\* processImport: resolveImportPath(importPath, filePath, rootDir);
\* createModuleId(resolvedPath)
ResolveSpecifier ==
  /\ specifierModuleId = <<>>
  /\ specifierModuleId' =
       <<CreateModuleId(ResolveImportPath(idSpecifier, RootDir \o idFrom, RootDir))>>
  /\ UNCHANGED <<idFile, idFrom, idSpecifier, moduleNodeId>>

InitIds ==
  /\ idFile \in ProjectFiles
  /\ idFrom \in ProjectFiles
  /\ idSpecifier \in Specifiers
  /\ moduleNodeId = <<>>
  /\ specifierModuleId = <<>>
  /\ IdleBuild
  /\ IdleReexport
  /\ IdleExtract
  /\ IdleCalls
  /\ IdlePasses
  /\ IdleWatch
  /\ IdleLayout
  /\ IdleEnv
  /\ IdleFind

NextIds ==
  \/ CreateModuleNode
       /\ UNCHANGED <<earlierVars, callVars, passVars, watchVars, layoutVars, envVars, findVars>>
  \/ ResolveSpecifier
       /\ UNCHANGED <<earlierVars, callVars, passVars, watchVars, layoutVars, envVars, findVars>>

SpecIds == InitIds /\ [][NextIds]_vars

\* the file a specifier written in file `from` refers to: the path itself,
\* the path with a source extension added (or put in place of .js), or the
\* index file of the directory of that path
SourceExtensions == {".ts", ".tsx"}

RefersTo(specifier, from, file) ==
  LET target == PathResolve(RootDir \o Dirname(from), specifier)
      path   == RootDir \o file
      last   == path[Len(path)]
      base   == SubSeq(last, 1, Len(last) - 1)
  IN  /\ IsRelativeSpecifier(specifier)
      /\ \/ target = path
         \/ /\ last[Len(last)] \in SourceExtensions
            /\ target \in {Append(Dirname(path), base),
                           Append(Dirname(path), Append(base, ".js"))}
         \/ /\ base = <<"index">>
            /\ last[Len(last)] \in SourceExtensions
            /\ target = Dirname(path)

\* C30: when the specifier refers to the file, the target module id
\* computed from the specifier is the id of the file's module node.
C30_SpecifierIdIsModuleNodeId ==
  (/\ moduleNodeId # <<>>
   /\ specifierModuleId # <<>>
   /\ RefersTo(idSpecifier, idFrom, idFile)) =>
    specifierModuleId[1] = moduleNodeId[1]

====
